---- MODULE Spec2Model ----
(***************************************************************************)
(* ODS-E transformer (odse/transformer.py) and schema validator            *)
(* (odse/validator.py) as a state machine.                                 *)
(*                                                                         *)
(* Python values are tagged tuples.  A str is a tuple of one-character     *)
(* strings, so that strip/upper/lower/title, float() parsing, str() and    *)
(* the timestamp parser are computed character by character.  A float is   *)
(* an exact rational n/d in lowest terms (d > 0); d = 0 encodes the        *)
(* non-finite floats (1/0 inf, -1/0 -inf, 0/0 nan).  A dict is a function  *)
(* from keys (TLA+ strings) to values, a list is a sequence.               *)
(***************************************************************************)
EXTENDS Integers, Sequences, FiniteSets, TLC

VARIABLES pc, source, data, opts, transformer, payload, shape, items, idx, prev_generation, records, origin, error, parsed, api, yielded

vars == <<pc, source, data, opts, transformer, payload, shape, items, idx, prev_generation, records, origin, error, parsed, api, yielded>>

---------------------------------------------------------------------------
(* Python values *)

PyNone == <<"None">>

PyStr(chars) == <<"str", chars>>

PyInt(i) == <<"int", i>>

Abs(i) == IF i < 0 THEN -i ELSE i

RECURSIVE Gcd(_, _)
Gcd(a, b) == IF b = 0 THEN a ELSE Gcd(b, a % b)

\* The float n/d in lowest terms (d > 0), or the non-finite float of the
\* sign of n (d = 0).
PyFloat(n, d) ==
    IF d = 0 THEN <<"float", IF n > 0 THEN 1 ELSE IF n < 0 THEN -1 ELSE 0, 0>>
    ELSE LET g == Gcd(Abs(n), d) IN <<"float", n \div g, d \div g>>

PyInf == <<"float", 1, 0>>

PyNegInf == <<"float", -1, 0>>

PyNaN == <<"float", 0, 0>>

PyDict(f) == <<"dict", f>>

PyList(l) == <<"list", l>>

\* An exception propagating out of an expression.
Raise(kind) == <<"raise", kind>>

IsNone(v) == v[1] = "None"

IsStr(v) == v[1] = "str"

IsInt(v) == v[1] = "int"

IsFloat(v) == v[1] = "float"

IsNumber(v) == IsInt(v) \/ IsFloat(v)

IsDict(v) == v[1] = "dict"

IsList(v) == v[1] = "list"

IsRaise(v) == v[1] = "raise"

IsFinite(v) == IsFloat(v) /\ v[3] > 0

\* bool(v): None, "", 0, 0.0, {} and [] are false.
Truthy(v) == CASE IsNone(v) -> FALSE
               [] IsStr(v) -> v[2] # <<>>
               [] IsInt(v) -> v[2] # 0
               [] IsFloat(v) -> ~(v[2] = 0 /\ v[3] > 0)
               [] IsDict(v) -> DOMAIN v[2] # {}
               [] IsList(v) -> v[2] # <<>>

\* a or b
PyOr(a, b) == IF Truthy(a) THEN a ELSE b

\* d.get(key) on a dict value.
Get(d, key) == IF key \in DOMAIN d[2] THEN d[2][key] ELSE PyNone

\* d.get(key, default)
GetDefault(d, key, default) == IF key \in DOMAIN d[2] THEN d[2][key] ELSE default

---------------------------------------------------------------------------
(* float arithmetic: exact on finite values, IEEE on inf and nan *)

\* The least common multiple of two denominators.
Lcm(a, b) == (a \div Gcd(a, b)) * b

FAdd(a, b) ==
    CASE a[3] > 0 /\ b[3] > 0 -> LET l == Lcm(a[3], b[3]) IN PyFloat(a[2] * (l \div a[3]) + b[2] * (l \div b[3]), l)
      [] a[3] = 0 /\ b[3] > 0 -> a
      [] a[3] > 0 /\ b[3] = 0 -> b
      [] OTHER -> IF a = b THEN a ELSE <<"float", 0, 0>>

FSub(a, b) == FAdd(a, <<"float", -b[2], b[3]>>)

FMul(a, b) == PyFloat(a[2] * b[2], a[3] * b[3])

\* a / b, b # 0
FDiv(a, b) == IF b[2] > 0 THEN PyFloat(a[2] * b[3], a[3] * b[2]) ELSE PyFloat(-(a[2] * b[3]), a[3] * (-b[2]))

\* a < b: false when either is nan; -inf below and inf above every finite.
FLt(a, b) ==
    CASE a[3] > 0 /\ b[3] > 0 -> a[2] * b[3] < b[2] * a[3]
      [] OTHER -> a # <<"float", 0, 0>> /\ b # <<"float", 0, 0>> /\ (IF a[3] = 0 THEN a[2] ELSE 0) < (IF b[3] = 0 THEN b[2] ELSE 0)

FLe(a, b) ==
    CASE a[3] > 0 /\ b[3] > 0 -> a[2] * b[3] <= b[2] * a[3]
      [] OTHER -> a # <<"float", 0, 0>> /\ b # <<"float", 0, 0>> /\ (IF a[3] = 0 THEN a[2] ELSE 0) <= (IF b[3] = 0 THEN b[2] ELSE 0)

\* max(a, b) as Python evaluates it: b only when b > a.
FMax(a, b) == IF FLt(a, b) THEN b ELSE a

\* min(a, b): b only when b < a.
FMin(a, b) == IF FLt(b, a) THEN b ELSE a

FZero == PyFloat(0, 1)

FOne == PyFloat(1, 1)

\* The float of an int or float value.
AsFloat(v) == IF IsInt(v) THEN PyFloat(v[2], 1) ELSE v

\* floor(sqrt(n)) for n >= 0, by bisection.
RECURSIVE ISqrtBetween(_, _, _)
ISqrtBetween(n, lo, hi) == IF lo >= hi THEN lo ELSE LET mid == (lo + hi + 1) \div 2 IN IF mid * mid <= n THEN ISqrtBetween(n, mid, hi) ELSE ISqrtBetween(n, lo, mid - 1)

ISqrt(n) == ISqrtBetween(n, 0, IF n < 40000 THEN n ELSE 40000)

\* math.sqrt of a float a >= 0: exact when a is the square of a rational.
FSqrt(a) == IF a[3] = 0 THEN a ELSE PyFloat(ISqrt(a[2] * a[3]), a[3])

---------------------------------------------------------------------------
(* str operations *)

Digit == <<"0", "1", "2", "3", "4", "5", "6", "7", "8", "9">>

LowerLetters == <<"a", "b", "c", "d", "e", "f", "g", "h", "i", "j", "k", "l", "m", "n", "o", "p", "q", "r", "s", "t", "u", "v", "w", "x", "y", "z">>

UpperLetters == <<"A", "B", "C", "D", "E", "F", "G", "H", "I", "J", "K", "L", "M", "N", "O", "P", "Q", "R", "S", "T", "U", "V", "W", "X", "Y", "Z">>

IsDigit(c) == \E i \in 1..10 : Digit[i] = c

DigitVal(c) == (CHOOSE i \in 1..10 : Digit[i] = c) - 1

IsLower(c) == \E i \in 1..26 : LowerLetters[i] = c

IsUpper(c) == \E i \in 1..26 : UpperLetters[i] = c

IsLetter(c) == IsLower(c) \/ IsUpper(c)

UpperChar(c) == IF IsLower(c) THEN UpperLetters[CHOOSE i \in 1..26 : LowerLetters[i] = c] ELSE c

LowerChar(c) == IF IsUpper(c) THEN LowerLetters[CHOOSE i \in 1..26 : UpperLetters[i] = c] ELSE c

\* str.upper()
Upper(s) == [i \in 1..Len(s) |-> UpperChar(s[i])]

\* str.lower()
Lower(s) == [i \in 1..Len(s) |-> LowerChar(s[i])]

\* str.title(): a letter is upper-cased after a non-letter, lower-cased after a letter.
Title(s) == [i \in 1..Len(s) |-> IF i = 1 \/ ~IsLetter(s[i - 1]) THEN UpperChar(s[i]) ELSE LowerChar(s[i])]

IsSpace(c) == c = " "

RECURSIVE LStrip(_)
LStrip(s) == IF s # <<>> /\ IsSpace(Head(s)) THEN LStrip(Tail(s)) ELSE s

RECURSIVE RStrip(_)
RStrip(s) == IF s # <<>> /\ IsSpace(s[Len(s)]) THEN RStrip(SubSeq(s, 1, Len(s) - 1)) ELSE s

\* str.strip()
Strip(s) == RStrip(LStrip(s))

AllDigits(s) == \A i \in 1..Len(s) : IsDigit(s[i])

RECURSIVE DigitsToNat(_)
DigitsToNat(s) == IF s = <<>> THEN 0 ELSE DigitsToNat(SubSeq(s, 1, Len(s) - 1)) * 10 + DigitVal(s[Len(s)])

RECURSIVE NatToDigits(_)
NatToDigits(n) == IF n < 10 THEN <<Digit[n + 1]>> ELSE NatToDigits(n \div 10) \o <<Digit[(n % 10) + 1]>>

RECURSIVE Pow10(_)
Pow10(k) == IF k = 0 THEN 1 ELSE 10 * Pow10(k - 1)

\* The digits of n left-padded with zeros to the given width.
RECURSIVE ZeroPad(_, _)
ZeroPad(s, width) == IF Len(s) >= width THEN s ELSE ZeroPad(<<"0">> \o s, width)

\* str(v) of a str, an int or a float with an integral value.
PyStrOf(v) == CASE IsStr(v) -> v[2]
                [] IsInt(v) -> IF v[2] < 0 THEN <<"-">> \o NatToDigits(-v[2]) ELSE NatToDigits(v[2])
                [] IsFloat(v) /\ v[3] = 1 -> (IF v[2] < 0 THEN <<"-">> \o NatToDigits(-v[2]) ELSE NatToDigits(v[2])) \o <<".", "0">>
                [] IsNone(v) -> <<"N", "o", "n", "e">>

EndsWith(s, suffix) == Len(s) >= Len(suffix) /\ SubSeq(s, Len(s) - Len(suffix) + 1, Len(s)) = suffix

\* The index of the first occurrence of c in s, 0 when there is none.
IndexOf(s, c) == IF \E i \in 1..Len(s) : s[i] = c THEN CHOOSE i \in 1..Len(s) : s[i] = c /\ \A j \in 1..(i - 1) : s[j] # c ELSE 0

---------------------------------------------------------------------------
(* Value coercion primitives *)

\* float(text) of a stripped, non-empty str: an optional sign, then "inf",
\* "infinity" or "nan" in any case, or decimal digits with at most one point.
\* A text float() rejects (ValueError) gives Raise.
ParseFloat(text) ==
    LET Parse(neg, word, ip, fp) ==
            CASE word \in {<<"i", "n", "f">>, <<"i", "n", "f", "i", "n", "i", "t", "y">>} -> IF neg THEN PyNegInf ELSE PyInf
              [] word = <<"n", "a", "n">> -> PyNaN
              [] AllDigits(ip) /\ AllDigits(fp) /\ Len(ip) + Len(fp) > 0 ->
                   PyFloat((IF neg THEN -1 ELSE 1) * (DigitsToNat(ip) * Pow10(Len(fp)) + DigitsToNat(fp)), Pow10(Len(fp)))
              [] OTHER -> Raise("ValueError")
        Split(neg, body, dot) ==
            Parse(neg, Lower(body), IF dot = 0 THEN body ELSE SubSeq(body, 1, dot - 1), IF dot = 0 THEN <<>> ELSE SubSeq(body, dot + 1, Len(body)))
        Unsigned(neg, body) == Split(neg, body, IndexOf(body, "."))
    IN  Unsigned(text[1] = "-", IF text[1] \in {"+", "-"} THEN Tail(text) ELSE text)

_to_float(value) ==
    LET Text(text) == IF text = <<>> THEN PyNone ELSE ParseFloat(text)
        Caught(f) == IF IsRaise(f) THEN PyNone ELSE f
    IN  CASE IsNone(value) -> PyNone
          [] IsStr(value) -> Caught(Text(Strip(value[2])))
          [] IsInt(value) -> PyFloat(value[2], 1)
          [] IsFloat(value) -> value
          [] OTHER -> PyNone

\* int(f) of a float: truncation toward zero; OverflowError on an infinity,
\* ValueError on nan.
IntOfFloat(f) ==
    CASE f[3] > 0 -> PyInt(IF f[2] >= 0 THEN f[2] \div f[3] ELSE -((-f[2]) \div f[3]))
      [] f[3] = 0 /\ f[2] # 0 -> Raise("OverflowError")
      [] OTHER -> Raise("ValueError")

_to_int(value) ==
    LET Truncated(float_val) == IF IsNone(float_val) THEN PyNone ELSE IntOfFloat(float_val)
    IN  Truncated(_to_float(value))

\* row[key] not in (None, "")
NotBlank(v) == ~IsNone(v) /\ v # PyStr(<<>>)

RECURSIVE _first_value(_, _)
_first_value(row, keys) ==
    IF keys = <<>> THEN PyNone
    ELSE IF Head(keys) \in DOMAIN row[2] /\ NotBlank(row[2][Head(keys)]) THEN row[2][Head(keys)]
    ELSE _first_value(row, Tail(keys))

RECURSIVE _deep_get(_, _)
_deep_get(current, keys) ==
    IF keys = <<>> THEN current
    ELSE IF ~IsDict(current) THEN PyNone
    ELSE _deep_get(Get(current, Head(keys)), Tail(keys))

---------------------------------------------------------------------------
(* Timestamp normalizer *)

IsLeap(y) == (y % 4 = 0 /\ y % 100 # 0) \/ y % 400 = 0

DaysInMonth(y, m) == IF m = 2 THEN (IF IsLeap(y) THEN 29 ELSE 28) ELSE IF m \in {4, 6, 9, 11} THEN 30 ELSE 31

\* What the datetime constructor accepts (it raises ValueError otherwise).
ValidDateTime(y, mo, d, h, mi, s) == /\ y \in 1..9999
                                     /\ mo \in 1..12
                                     /\ d \in 1..DaysInMonth(y, mo)
                                     /\ h \in 0..23
                                     /\ mi \in 0..59
                                     /\ s \in 0..59

\* A parsed datetime; tz is <<>> for a naive one, else its offset as "+HH:MM".
DateTime(y, mo, d, h, mi, s, tz) == [year |-> y, month |-> mo, day |-> d, hour |-> h, minute |-> mi, second |-> s, tzinfo |-> tz]

NoDateTime == [year |-> 0, month |-> 0, day |-> 0, hour |-> 0, minute |-> 0, second |-> 0, tzinfo |-> <<>>]

\* datetime.replace(microsecond=0).isoformat()
IsoFormat(dt) ==
    ZeroPad(NatToDigits(dt.year), 4) \o <<"-">> \o ZeroPad(NatToDigits(dt.month), 2) \o <<"-">> \o ZeroPad(NatToDigits(dt.day), 2)
    \o <<"T">> \o ZeroPad(NatToDigits(dt.hour), 2) \o <<":">> \o ZeroPad(NatToDigits(dt.minute), 2) \o <<":">> \o ZeroPad(NatToDigits(dt.second), 2)
    \o dt.tzinfo

\* text split at the first occurrence of each separator in turn; <<>> when a
\* separator is missing.
RECURSIVE SplitFields(_, _)
SplitFields(text, seps) ==
    LET Join(k, rest) == IF k = 0 \/ rest = <<>> THEN <<>> ELSE <<SubSeq(text, 1, k - 1)>> \o rest
        At(k) == Join(k, SplitFields(SubSeq(text, k + 1, Len(text)), Tail(seps)))
    IN  IF seps = <<>> THEN <<text>> ELSE At(IndexOf(text, Head(seps)))

IsNumField(f, lo, hi) == Len(f) \in lo..hi /\ AllDigits(f)

\* datetime.strptime(text, fmt) for the formats "%Y<a>%m<a>%d %H:%M:%S"
\* (withTime) and "%Y<a>%m<a>%d": a four-digit year, the other fields one or
\* two digits.  NoDateTime stands for ValueError.
StrpTime(text, a, withTime) ==
    LET Build(v) == IF ValidDateTime(v[1], v[2], v[3], v[4], v[5], v[6]) THEN DateTime(v[1], v[2], v[3], v[4], v[5], v[6], <<>>) ELSE NoDateTime
        Fields(f, n) ==
            IF Len(f) = n /\ IsNumField(f[1], 4, 4) /\ \A i \in 2..n : IsNumField(f[i], 1, 2)
            THEN Build([i \in 1..6 |-> IF i <= n THEN DigitsToNat(f[i]) ELSE 0])
            ELSE NoDateTime
    IN  Fields(SplitFields(text, IF withTime THEN <<a, a, " ", ":", ":">> ELSE <<a, a>>), IF withTime THEN 6 ELSE 3)

\* A UTC offset "+HH:MM" / "-HH:MM" of less than a day.
IsIsoOffset(o) == /\ Len(o) = 6
                  /\ o[1] \in {"+", "-"}
                  /\ AllDigits(SubSeq(o, 2, 3))
                  /\ o[4] = ":"
                  /\ AllDigits(SubSeq(o, 5, 6))
                  /\ DigitsToNat(SubSeq(o, 2, 3)) \in 0..23
                  /\ DigitsToNat(SubSeq(o, 5, 6)) \in 0..59

\* The offset as isoformat() prints it: a zero offset is "+00:00".
NormalOffset(o) == IF SubSeq(o, 2, 6) = <<"0", "0", ":", "0", "0">> THEN <<"+", "0", "0", ":", "0", "0">> ELSE o

\* datetime.fromisoformat(text) on the fixed-width forms YYYY-MM-DD,
\* YYYY-MM-DD?HH:MM, YYYY-MM-DD?HH:MM:SS and YYYY-MM-DD?HH:MM:SS+HH:MM
\* (? any one character).
\* NoDateTime stands for ValueError.
FromIsoFormat(text) ==
    LET Num(i, j) == IF Len(text) >= j /\ AllDigits(SubSeq(text, i, j)) THEN DigitsToNat(SubSeq(text, i, j)) ELSE -1
        Build(n, dateOk, minOk, secOk, v, tz) ==
            CASE n = 10 /\ dateOk /\ ValidDateTime(v[1], v[2], v[3], 0, 0, 0) -> DateTime(v[1], v[2], v[3], 0, 0, 0, <<>>)
              [] n = 16 /\ dateOk /\ minOk /\ ValidDateTime(v[1], v[2], v[3], v[4], v[5], 0) -> DateTime(v[1], v[2], v[3], v[4], v[5], 0, <<>>)
              [] n = 19 /\ dateOk /\ minOk /\ secOk /\ ValidDateTime(v[1], v[2], v[3], v[4], v[5], v[6]) -> DateTime(v[1], v[2], v[3], v[4], v[5], v[6], <<>>)
              [] n = 25 /\ dateOk /\ minOk /\ secOk /\ ValidDateTime(v[1], v[2], v[3], v[4], v[5], v[6]) /\ IsIsoOffset(tz) -> DateTime(v[1], v[2], v[3], v[4], v[5], v[6], NormalOffset(tz))
              [] OTHER -> NoDateTime
        Check(n, v) ==
            Build(n,
                  n >= 10 /\ v[1] >= 0 /\ text[5] = "-" /\ v[2] >= 0 /\ text[8] = "-" /\ v[3] >= 0,
                  n >= 16 /\ v[4] >= 0 /\ text[14] = ":" /\ v[5] >= 0,
                  n >= 19 /\ text[17] = ":" /\ v[6] >= 0,
                  v, IF n = 25 THEN SubSeq(text, 20, 25) ELSE <<>>)
    IN  Check(Len(text), <<Num(1, 4), Num(6, 7), Num(9, 10), Num(12, 13), Num(15, 16), Num(18, 19)>>)

\* text.replace("Z", "+00:00")
RECURSIVE ReplaceZ(_)
ReplaceZ(text) == IF text = <<>> THEN <<>> ELSE (IF Head(text) = "Z" THEN <<"+", "0", "0", ":", "0", "0">> ELSE <<Head(text)>>) \o ReplaceZ(Tail(text))

\* The civil date of a day count since 1970-01-01 (proleptic Gregorian).
CivilFromDays(days) ==
    LET Date(y, m, d) == <<y + (IF m <= 2 THEN 1 ELSE 0), m, d>>
        Month(y, doy, mp) == Date(y, IF mp < 10 THEN mp + 3 ELSE mp - 9, doy - (153 * mp + 2) \div 5 + 1)
        Day(y, doy) == Month(y, doy, (5 * doy + 2) \div 153)
        Year(era, doe, yoe) == Day(yoe + era * 400, doe - (365 * yoe + yoe \div 4 - yoe \div 100))
        Era(era, doe) == Year(era, doe, (doe - doe \div 1460 + doe \div 36524 - doe \div 146096) \div 365)
        Shifted(z) == Era(z \div 146097, z % 146097)
    IN  Shifted(days + 719468)

\* datetime.fromtimestamp(secs, utc) with the sub-second part dropped.
FromTimestamp(secs) ==
    LET At(ymd, sod) == DateTime(ymd[1], ymd[2], ymd[3], sod \div 3600, (sod % 3600) \div 60, sod % 60, <<>>)
    IN  At(CivilFromDays(secs \div 86400), secs % 86400)

_is_offset_tz(value) ==
    /\ IsStr(value)
    /\ Len(value[2]) = 6
    /\ value[2][1] \in {"+", "-"}
    /\ AllDigits(SubSeq(value[2], 2, 3))
    /\ value[2][4] = ":"
    /\ AllDigits(SubSeq(value[2], 5, 6))

\* The suffix of a naive timestamp with the override ignored.
NaiveSuffixUtc(timezone) == <<"Z">>

\* The suffix of a naive timestamp: the override when it is truthy and
\* well-formed, else "Z".
NaiveSuffix(timezone) == IF Truthy(timezone) /\ _is_offset_tz(timezone) THEN timezone[2] ELSE <<"Z">>

\* The numeric branch: UTC epoch seconds, always with a trailing "Z".
EpochToIso(value) ==
    LET Format(dt) == IF dt.year \in 1..9999 THEN PyStr(IsoFormat(dt) \o <<"Z">>) ELSE PyNone
        Seconds(f) ==
            CASE f[3] = 0 /\ f[2] # 0 -> Raise("OverflowError")
              [] f[3] = 0 /\ f[2] = 0 -> PyNone
              [] OTHER -> Format(FromTimestamp(f[2] \div f[3]))
    IN  Seconds(AsFloat(value))

\* The str branch.
TextToIso(raw, timezone) ==
    LET Naive(dt) == PyStr(IsoFormat(dt) \o NaiveSuffix(timezone))
        Try3(f3) == IF f3 # NoDateTime THEN Naive(f3) ELSE PyNone
        Try2(text, f2) == IF f2 # NoDateTime THEN Naive(f2) ELSE Try3(StrpTime(text, "-", FALSE))
        Try1(text, f1) == IF f1 # NoDateTime THEN Naive(f1) ELSE Try2(text, StrpTime(text, "/", TRUE))
        Iso(text, iso) ==
            CASE iso # NoDateTime /\ iso.tzinfo = <<>> -> Naive(iso)
              [] iso # NoDateTime /\ iso.tzinfo # <<>> -> PyStr(IsoFormat(iso))
              [] OTHER -> Try1(text, StrpTime(text, "-", TRUE))
        Stripped(text) == IF text = <<>> THEN PyNone ELSE Iso(text, FromIsoFormat(ReplaceZ(text)))
    IN  Stripped(Strip(raw))

_to_iso8601(value, timezone) ==
    CASE IsNone(value) -> PyNone
      [] IsNumber(value) -> EpochToIso(value)
      [] IsStr(value) -> TextToIso(value[2], timezone)
      [] OTHER -> PyNone

---------------------------------------------------------------------------
(* Canonical state enum and record assembly *)

normal == <<"n", "o", "r", "m", "a", "l">>

warning == <<"w", "a", "r", "n", "i", "n", "g">>

critical == <<"c", "r", "i", "t", "i", "c", "a", "l">>

fault == <<"f", "a", "u", "l", "t">>

offline == <<"o", "f", "f", "l", "i", "n", "e">>

standby == <<"s", "t", "a", "n", "d", "b", "y">>

unknown == <<"u", "n", "k", "n", "o", "w", "n">>

\* The outcome of one pass through a transformer's loop body.
Skip == <<"skip">>

Emit(record) == <<"emit", record>>

IsEmit(out) == out[1] = "emit"

\* The first exception among the values, in evaluation order; <<>> when none.
RECURSIVE FirstRaise(_)
FirstRaise(vals) == IF vals = <<>> THEN <<>> ELSE IF IsRaise(Head(vals)) THEN Head(vals) ELSE FirstRaise(Tail(vals))

\* record[key] = value when cond, else the record unchanged.
SetIf(cond, key, value, record) == IF cond THEN (key :> value) @@ record ELSE record

\* (kwargs.get("interval_minutes", default) or default) / 60.0
IntervalHours(o, default) == FDiv(AsFloat(PyOr(o.interval_minutes, PyInt(default))), PyFloat(60, 1))

\* v / 1000.0
Milli(v) == FDiv(v, PyFloat(1000, 1))

\* (v or 0.0)
OrZero(v) == PyOr(v, FZero)

\* The lookup table.get(key, default) of a sequence of <<key, value>> pairs.
Lookup(table, key, default) == IF \E i \in 1..Len(table) : table[i][1] = key THEN table[CHOOSE i \in 1..Len(table) : table[i][1] = key][2] ELSE default

HasKey(table, key) == \E i \in 1..Len(table) : table[i][1] = key

\* _base_record writing error_code and asset_id whether or not they are set.
_base_record_with_nulls(timestamp, kwh, error_type, error_code, asset_id) ==
    ("asset_id" :> asset_id) @@ ("error_code" :> error_code)
    @@ ("timestamp" :> timestamp) @@ ("kWh" :> FMax(kwh, FZero)) @@ ("error_type" :> PyStr(error_type))

_base_record(timestamp, kwh, error_type, error_code, asset_id) ==
    SetIf(Truthy(asset_id), "asset_id", asset_id,
    SetIf(~IsNone(error_code), "error_code", PyStr(PyStrOf(error_code)),
    ("timestamp" :> timestamp) @@ ("kWh" :> FMax(kwh, FZero)) @@ ("error_type" :> PyStr(error_type))))

---------------------------------------------------------------------------
(* HuaweiTransformer *)

HuaweiERROR_CODES == <<
    <<normal, {0, 1, 2, 3, 256, 512, 1025, 1026, 1280, 1281, 1536, 1792, 2048, 2304, 40960, 49152}>>,
    <<warning, {513, 514, 772, 773, 774}>>,
    <<critical, {768, 770, 771, 45056}>>,
    <<fault, {769, 1024}>> >>

\* _map_error_code with a code that is in no table passed through as its
\* text instead of mapped to "unknown".
Huawei_map_error_code_passthrough(code, run_state) ==
    CASE run_state = PyInt(0) -> offline
      [] run_state # PyInt(0) /\ IsNone(code) -> unknown
      [] run_state # PyInt(0) /\ ~IsNone(code) ->
           IF \E i \in 1..4 : code[2] \in HuaweiERROR_CODES[i][2]
           THEN HuaweiERROR_CODES[CHOOSE i \in 1..4 : code[2] \in HuaweiERROR_CODES[i][2]][1]
           ELSE PyStrOf(code)

\* _map_error_code consulting the table before run_state: a run_state of 0
\* gives offline only for a code that is absent or in no table.
Huawei_map_error_code_table_first(code, run_state) ==
    CASE ~IsNone(code) /\ (\E i \in 1..4 : code[2] \in HuaweiERROR_CODES[i][2]) ->
           HuaweiERROR_CODES[CHOOSE i \in 1..4 : code[2] \in HuaweiERROR_CODES[i][2]][1]
      [] OTHER -> IF run_state = PyInt(0) THEN offline ELSE unknown

Huawei_map_error_code(code, run_state) ==
    CASE run_state = PyInt(0) -> offline
      [] run_state # PyInt(0) /\ IsNone(code) -> unknown
      [] run_state # PyInt(0) /\ ~IsNone(code) ->
           IF \E i \in 1..4 : code[2] \in HuaweiERROR_CODES[i][2]
           THEN HuaweiERROR_CODES[CHOOSE i \in 1..4 : code[2] \in HuaweiERROR_CODES[i][2] /\ \A j \in 1..(i - 1) : code[2] \notin HuaweiERROR_CODES[j][2]][1]
           ELSE unknown

HuaweiRow(row, o) ==
    LET Build(iso_ts, power_kw, inverter_state, run_state, raised) ==
            CASE IsRaise(iso_ts) -> iso_ts
              [] ~IsRaise(iso_ts) /\ ~Truthy(iso_ts) -> Skip
              [] ~IsRaise(iso_ts) /\ Truthy(iso_ts) /\ raised # <<>> -> raised
              [] OTHER ->
                   Emit(SetIf(Truthy(o.asset_id), "asset_id", o.asset_id,
                        ("timestamp" :> iso_ts)
                        @@ ("kWh" :> FMax(FMul(OrZero(power_kw), IntervalHours(o, 5)), FZero))
                        @@ ("error_type" :> PyStr(Huawei_map_error_code(inverter_state, run_state)))
                        @@ ("error_code" :> IF IsNone(inverter_state) THEN PyStr(unknown) ELSE PyStr(PyStrOf(inverter_state)))))
        Parsed(iso_ts, power_kw, inverter_state, run_state) ==
            Build(iso_ts, power_kw, inverter_state, run_state, FirstRaise(<<inverter_state, run_state>>))
    IN  Parsed(_to_iso8601(_first_value(row, <<"timestamp", "Time", "Timestamp", "time">>), o.timezone),
               _to_float(_first_value(row, <<"power", "Active Power(kW)", "Power", "power_kw">>)),
               _to_int(_first_value(row, <<"inverter_state", "Inverter State", "State", "status">>)),
               _to_int(_first_value(row, <<"run_state", "Running State", "Run State">>)))

---------------------------------------------------------------------------
(* EnphaseTransformer *)

\* _derive_status with the thresholds compared strictly.
Enphase_derive_status_strict(devices_reporting, expected_devices) ==
    LET Classify(ratio) ==
            IF FLt(PyFloat(95, 100), ratio) THEN normal
            ELSE IF FLt(PyFloat(80, 100), ratio) THEN warning
            ELSE IF devices_reporting[2] > 0 THEN critical
            ELSE offline
    IN  CASE IsNone(devices_reporting) -> offline
          [] ~IsNone(devices_reporting) /\ (IsNone(expected_devices) \/ ~FLt(FZero, AsFloat(expected_devices))) ->
               IF devices_reporting = PyInt(0) THEN offline ELSE normal
          [] OTHER -> Classify(FDiv(AsFloat(devices_reporting), AsFloat(expected_devices)))

Enphase_derive_status(devices_reporting, expected_devices) ==
    LET Classify(ratio) ==
            IF FLe(PyFloat(95, 100), ratio) THEN normal
            ELSE IF FLe(PyFloat(80, 100), ratio) THEN warning
            ELSE IF devices_reporting[2] > 0 THEN critical
            ELSE offline
    IN  CASE IsNone(devices_reporting) -> offline
          [] ~IsNone(devices_reporting) /\ (IsNone(expected_devices) \/ ~FLt(FZero, AsFloat(expected_devices))) ->
               IF devices_reporting = PyInt(0) THEN offline ELSE normal
          [] OTHER -> Classify(FDiv(AsFloat(devices_reporting), AsFloat(expected_devices)))

\* The entries EnphaseTransformer.transform iterates over.
EnphaseItems(p) ==
    CASE IsDict(p) -> IF IsList(Get(p, "production")) THEN Get(p, "production")[2] ELSE <<p>>
      [] IsList(p) -> p[2]
      [] OTHER -> <<>>

EnphaseRow(item, o) ==
    LET Build(timestamp, wh_del, devices_reporting) ==
            CASE IsRaise(timestamp) -> timestamp
              [] ~IsRaise(timestamp) /\ (IsNone(timestamp) \/ IsNone(wh_del)) -> Skip
              [] ~IsRaise(timestamp) /\ ~IsNone(timestamp) /\ ~IsNone(wh_del) /\ IsRaise(devices_reporting) -> devices_reporting
              [] OTHER ->
                   Emit(SetIf(Truthy(o.asset_id), "asset_id", o.asset_id,
                        ("timestamp" :> timestamp)
                        @@ ("kWh" :> FMax(Milli(wh_del), FZero))
                        @@ ("error_type" :> PyStr(Enphase_derive_status(devices_reporting, o.expected_devices)))))
    IN  IF ~IsDict(item) THEN Skip
        ELSE Build(_to_iso8601(_to_float(Get(item, "end_at")), PyNone), _to_float(Get(item, "wh_del")), _to_int(Get(item, "devices_reporting")))

---------------------------------------------------------------------------
(* SolarmanTransformer *)

SolarmanSTATE_MAPPING == <<
    <<<<"N", "o", "r", "m", "a", "l">>, normal>>, <<<<"O", "p", "e", "r", "a", "t", "i", "n", "g">>, normal>>, <<<<"W", "a", "r", "n", "i", "n", "g">>, warning>>, <<<<"F", "a", "u", "l", "t">>, fault>>,
    <<<<"E", "r", "r", "o", "r">>, fault>>, <<<<"O", "f", "f", "l", "i", "n", "e">>, offline>>, <<<<"S", "t", "a", "n", "d", "b", "y">>, standby>>, <<<<"D", "e", "g", "r", "a", "d", "e", "d">>, warning>>,
    <<<<"D", "i", "s", "c", "o", "n", "n", "e", "c", "t", "e", "d">>, offline>>, <<<<"N", "o", " ", "D", "a", "t", "a">>, offline>>, <<<<"I", "d", "l", "e">>, standby>>, <<<<"W", "a", "i", "t", "i", "n", "g">>, standby>>,
    <<<<"O", "n", "l", "i", "n", "e">>, normal>>, <<<<"1">>, normal>>, <<<<"0">>, offline>> >>

\* Solarman_map_state classifying a power of 0 as standby, as the Switch
\* transformer does.
Solarman_map_state_standby(device_state, power_w) ==
    LET Mapped(state_key, state_title) ==
            CASE ~IsNone(device_state) /\ HasKey(SolarmanSTATE_MAPPING, state_key) -> Lookup(SolarmanSTATE_MAPPING, state_key, unknown)
              [] ~IsNone(device_state) /\ ~HasKey(SolarmanSTATE_MAPPING, state_key) /\ HasKey(SolarmanSTATE_MAPPING, state_title) -> Lookup(SolarmanSTATE_MAPPING, state_title, unknown)
              [] OTHER ->
                   IF IsNone(power_w) THEN unknown
                   ELSE IF FLt(FZero, power_w) THEN normal
                   ELSE IF power_w = FZero THEN standby
                   ELSE warning
        Keyed(state_key) == Mapped(state_key, Title(state_key))
    IN  Keyed(Strip(PyStrOf(device_state)))

Solarman_map_state(device_state, power_w) ==
    LET Mapped(state_key, state_title) ==
            CASE ~IsNone(device_state) /\ HasKey(SolarmanSTATE_MAPPING, state_key) -> Lookup(SolarmanSTATE_MAPPING, state_key, unknown)
              [] ~IsNone(device_state) /\ ~HasKey(SolarmanSTATE_MAPPING, state_key) /\ HasKey(SolarmanSTATE_MAPPING, state_title) -> Lookup(SolarmanSTATE_MAPPING, state_title, unknown)
              [] OTHER ->
                   IF IsNone(power_w) THEN unknown
                   ELSE IF FLt(FZero, power_w) THEN normal
                   ELSE IF power_w = FZero THEN offline
                   ELSE warning
        Keyed(state_key) == Mapped(state_key, Title(state_key))
    IN  Keyed(Strip(PyStrOf(device_state)))

\* The first reading of the call counted from a baseline of zero.
Solarman_delta_from_zero(generation, prev) == IF IsNone(prev) THEN generation ELSE FMax(FSub(generation, prev), FZero)

\* The increase since the baseline without the floor at zero.
Solarman_delta_unclamped(generation, prev) == IF IsNone(prev) THEN FZero ELSE FSub(generation, prev)

\* kWh of a row with a cumulative reading: 0.0 for the first reading of the
\* call, else the increase since the baseline, floored at zero.
Solarman_delta(generation, prev) == IF IsNone(prev) THEN FZero ELSE FMax(FSub(generation, prev), FZero)

\* One pass of the loop body with the baseline prev: the outcome and the
\* baseline after it.
SolarmanRow(row, o, prev) ==
    LET WithPower(generation_missing, power_w, record) ==
            IF IsNone(power_w) THEN record
            ELSE SetIf(generation_missing /\ FLt(FZero, power_w), "kWh", FMul(Milli(power_w), IntervalHours(o, 5)),
                 ("kW" :> Milli(power_w)) @@ record)
        Build(timestamp, generation, generation_missing, device_state_raw, power_w) ==
            CASE IsRaise(timestamp) -> [out |-> timestamp, prev |-> prev]
              [] ~IsRaise(timestamp) /\ ~Truthy(timestamp) -> [out |-> Skip, prev |-> prev]
              [] ~IsRaise(timestamp) /\ Truthy(timestamp) /\ generation_missing -> [out |-> Skip, prev |-> prev]
              [] OTHER ->
                   [out |-> Emit(SetIf(Truthy(o.asset_id), "asset_id", o.asset_id,
                                 WithPower(generation_missing, power_w,
                                     ("timestamp" :> timestamp)
                                     @@ ("kWh" :> Solarman_delta(generation, prev))
                                     @@ ("error_type" :> PyStr(Solarman_map_state(device_state_raw, power_w)))
                                     @@ ("error_code" :> IF NotBlank(device_state_raw) THEN PyStr(PyStrOf(device_state_raw)) ELSE PyStr(<<"i", "n", "f", "e", "r", "r", "e", "d">>))))),
                    prev |-> generation]
        Parsed(timestamp, generation, device_state_raw, power_w) ==
            Build(timestamp, generation, IsNone(generation), device_state_raw, power_w)
    IN  Parsed(_to_iso8601(_first_value(row, <<"update_time", "Update Time", "Time", "Timestamp">>), o.timezone),
               _to_float(_first_value(row, <<"generation", "Generation(kWh)", "Total Generation", "Cumulative Energy">>)),
               _first_value(row, <<"device_state", "Device State", "Status", "State">>),
               _to_float(_first_value(row, <<"power", "Power(W)", "Active Power", "Output Power">>)))

---------------------------------------------------------------------------
(* SwitchTransformer *)

Switch_map_switch_error(power) ==
    IF IsNone(power) THEN unknown
    ELSE IF power = FZero THEN standby
    ELSE IF FLt(FZero, power) THEN normal
    ELSE warning

_switch_error_code(power) == IF IsNone(power) THEN unknown ELSE IF power = FZero THEN <<"0">> ELSE <<"1">>

\* SwitchRow choosing each channel with `primary or secondary`: a primary of
\* 0 is replaced by the secondary.
SwitchRow_truthy(row, o) ==
    LET Build(iso_ts, power_w, reactive_w, p_kw, q_kvar, kva, pf, interval_hours) ==
            CASE IsRaise(iso_ts) -> iso_ts
              [] ~IsRaise(iso_ts) /\ ~Truthy(iso_ts) -> Skip
              [] OTHER ->
                   Emit(SetIf(Truthy(o.asset_id), "asset_id", o.asset_id,
                        SetIf(~IsNone(pf), "PF", FMax(FZero, FMin(FOne, pf)),
                        SetIf(~IsNone(kva), "kVA", kva,
                        SetIf(~IsNone(reactive_w), "kVArh", FMul(q_kvar, interval_hours),
                        ("timestamp" :> iso_ts)
                        @@ ("kWh" :> FMax(FMul(p_kw, interval_hours), FZero))
                        @@ ("error_type" :> PyStr(Switch_map_switch_error(power_w)))
                        @@ ("error_code" :> PyStr(_switch_error_code(power_w))))))))
        Factor(iso_ts, power_w, reactive_w, p_kw, q_kvar, kva) ==
            Build(iso_ts, power_w, reactive_w, p_kw, q_kvar, kva, IF Truthy(kva) /\ FLt(FZero, kva) THEN FDiv(p_kw, kva) ELSE PyNone, IntervalHours(o, 15))
        Apparent(iso_ts, power_w, reactive_w, p_kw, q_kvar) ==
            Factor(iso_ts, power_w, reactive_w, p_kw, q_kvar,
                   IF ~IsNone(power_w) \/ ~IsNone(reactive_w) THEN FSqrt(FAdd(FMul(p_kw, p_kw), FMul(q_kvar, q_kvar))) ELSE PyNone)
        Chosen(iso_ts, power_w, reactive_w) == Apparent(iso_ts, power_w, reactive_w, Milli(OrZero(power_w)), Milli(OrZero(reactive_w)))
        Parsed(iso_ts, d_p1, d_p2, d_q1, d_q2) == Chosen(iso_ts, PyOr(d_p1, d_p2), PyOr(d_q1, d_q2))
    IN  Parsed(_to_iso8601(_first_value(row, <<"timestampISO", "timestamp", "Time", "Date/Time">>), o.timezone),
               _to_float(Get(row, "dP1")), _to_float(Get(row, "dP2")), _to_float(Get(row, "dQ1")), _to_float(Get(row, "dQ2")))

SwitchRow(row, o) ==
    LET Build(iso_ts, power_w, reactive_w, p_kw, q_kvar, kva, pf, interval_hours) ==
            CASE IsRaise(iso_ts) -> iso_ts
              [] ~IsRaise(iso_ts) /\ ~Truthy(iso_ts) -> Skip
              [] OTHER ->
                   Emit(SetIf(Truthy(o.asset_id), "asset_id", o.asset_id,
                        SetIf(~IsNone(pf), "PF", FMax(FZero, FMin(FOne, pf)),
                        SetIf(~IsNone(kva), "kVA", kva,
                        SetIf(~IsNone(reactive_w), "kVArh", FMul(q_kvar, interval_hours),
                        ("timestamp" :> iso_ts)
                        @@ ("kWh" :> FMax(FMul(p_kw, interval_hours), FZero))
                        @@ ("error_type" :> PyStr(Switch_map_switch_error(power_w)))
                        @@ ("error_code" :> PyStr(_switch_error_code(power_w))))))))
        Factor(iso_ts, power_w, reactive_w, p_kw, q_kvar, kva) ==
            Build(iso_ts, power_w, reactive_w, p_kw, q_kvar, kva, IF Truthy(kva) /\ FLt(FZero, kva) THEN FDiv(p_kw, kva) ELSE PyNone, IntervalHours(o, 15))
        Apparent(iso_ts, power_w, reactive_w, p_kw, q_kvar) ==
            Factor(iso_ts, power_w, reactive_w, p_kw, q_kvar,
                   IF ~IsNone(power_w) \/ ~IsNone(reactive_w) THEN FSqrt(FAdd(FMul(p_kw, p_kw), FMul(q_kvar, q_kvar))) ELSE PyNone)
        Chosen(iso_ts, power_w, reactive_w) == Apparent(iso_ts, power_w, reactive_w, Milli(OrZero(power_w)), Milli(OrZero(reactive_w)))
        Parsed(iso_ts, d_p1, d_p2, d_q1, d_q2) == Chosen(iso_ts, IF ~IsNone(d_p1) THEN d_p1 ELSE d_p2, IF ~IsNone(d_q1) THEN d_q1 ELSE d_q2)
    IN  Parsed(_to_iso8601(_first_value(row, <<"timestampISO", "timestamp", "Time", "Date/Time">>), o.timezone),
               _to_float(Get(row, "dP1")), _to_float(Get(row, "dP2")), _to_float(Get(row, "dQ1")), _to_float(Get(row, "dQ2")))

---------------------------------------------------------------------------
(* SolaxCloudTransformer *)

SolaxSTATUS_MAPPING == <<
    <<<<"1", "0", "0">>, standby>>, <<<<"1", "0", "1">>, standby>>, <<<<"1", "0", "2">>, normal>>, <<<<"1", "0", "3">>, warning>>, <<<<"1", "0", "4">>, fault>>,
    <<<<"1", "0", "5">>, warning>>, <<<<"1", "0", "6">>, standby>>, <<<<"1", "0", "7">>, warning>>, <<<<"1", "0", "8">>, standby>>, <<<<"1", "0", "9">>, standby>>,
    <<<<"1", "1", "0">>, standby>>, <<<<"1", "1", "1">>, standby>>, <<<<"1", "1", "2">>, standby>>, <<<<"1", "1", "3">>, warning>>, <<<<"1", "1", "4">>, standby>>,
    <<<<"1", "3", "0">>, warning>>, <<<<"1", "3", "1">>, normal>>, <<<<"1", "3", "2">>, warning>>, <<<<"1", "3", "3">>, warning>> >>

\* [x for x in l if isinstance(x, dict)]
OnlyDicts(l) == SelectSeq(l, IsDict)

_extract_solax_records(p) ==
    CASE IsDict(p) /\ IsDict(Get(p, "result")) -> <<Get(p, "result")>>
      [] IsDict(p) /\ IsList(Get(p, "result")) -> OnlyDicts(Get(p, "result")[2])
      [] IsDict(p) /\ ~IsDict(Get(p, "result")) /\ ~IsList(Get(p, "result")) /\ IsDict(Get(p, "data")) -> <<Get(p, "data")>>
      [] IsDict(p) /\ ~IsDict(Get(p, "result")) /\ ~IsList(Get(p, "result")) /\ IsList(Get(p, "data")) -> OnlyDicts(Get(p, "data")[2])
      [] IsList(p) -> OnlyDicts(p[2])
      [] OTHER -> <<>>

\* SolaxRow choosing the energy with `yield_today or estimate`: a reported
\* yieldtoday of 0 is replaced by the estimate.
SolaxRow_truthy(rec, o, p) ==
    LET Build(timestamp, ac_power_w, kwh, status_code) ==
            CASE IsRaise(timestamp) -> timestamp
              [] ~IsRaise(timestamp) /\ ~Truthy(timestamp) -> Skip
              [] ~IsRaise(timestamp) /\ Truthy(timestamp) /\ ~IsDict(p) -> Raise("AttributeError")
              [] OTHER ->
                   Emit(SetIf(Truthy(o.asset_id), "asset_id", o.asset_id,
                        SetIf(~IsNone(Get(p, "code")), "oem_error_code", PyStr(PyStrOf(Get(p, "code"))),
                        SetIf(~IsNone(ac_power_w), "kW", Milli(ac_power_w),
                        ("timestamp" :> timestamp)
                        @@ ("kWh" :> kwh)
                        @@ ("error_type" :> PyStr(Lookup(SolaxSTATUS_MAPPING, PyOr(status_code, PyStr(<<>>))[2], unknown)))
                        @@ ("error_code" :> PyOr(status_code, PyStr(unknown)))))))
        Parsed(timestamp, ac_power_w, yield_today, status_raw) ==
            Build(timestamp, ac_power_w,
                  IF Truthy(yield_today) THEN yield_today ELSE FMax(FMul(Milli(OrZero(ac_power_w)), IntervalHours(o, 5)), FZero),
                  IF ~IsNone(status_raw) THEN PyStr(PyStrOf(status_raw)) ELSE PyNone)
    IN  Parsed(_to_iso8601(PyOr(Get(rec, "uploadTime"), Get(rec, "timestamp")), o.timezone),
               _to_float(Get(rec, "acpower")), _to_float(Get(rec, "yieldtoday")), Get(rec, "inverterStatus"))

SolaxRow(rec, o, p) ==
    LET Build(timestamp, ac_power_w, kwh, status_code) ==
            CASE IsRaise(timestamp) -> timestamp
              [] ~IsRaise(timestamp) /\ ~Truthy(timestamp) -> Skip
              [] ~IsRaise(timestamp) /\ Truthy(timestamp) /\ ~IsDict(p) -> Raise("AttributeError")
              [] OTHER ->
                   Emit(SetIf(Truthy(o.asset_id), "asset_id", o.asset_id,
                        SetIf(~IsNone(Get(p, "code")), "oem_error_code", PyStr(PyStrOf(Get(p, "code"))),
                        SetIf(~IsNone(ac_power_w), "kW", Milli(ac_power_w),
                        ("timestamp" :> timestamp)
                        @@ ("kWh" :> kwh)
                        @@ ("error_type" :> PyStr(Lookup(SolaxSTATUS_MAPPING, PyOr(status_code, PyStr(<<>>))[2], unknown)))
                        @@ ("error_code" :> PyOr(status_code, PyStr(unknown)))))))
        Parsed(timestamp, ac_power_w, yield_today, status_raw) ==
            Build(timestamp, ac_power_w,
                  IF ~IsNone(yield_today) THEN yield_today ELSE FMax(FMul(Milli(OrZero(ac_power_w)), IntervalHours(o, 5)), FZero),
                  IF ~IsNone(status_raw) THEN PyStr(PyStrOf(status_raw)) ELSE PyNone)
    IN  Parsed(_to_iso8601(PyOr(Get(rec, "uploadTime"), Get(rec, "timestamp")), o.timezone),
               _to_float(Get(rec, "acpower")), _to_float(Get(rec, "yieldtoday")), Get(rec, "inverterStatus"))

---------------------------------------------------------------------------
(* FimerTransformer *)

FimerSTATUS_MAPPING == <<
    <<<<"O", "K">>, normal>>, <<<<"O", "N", "L", "I", "N", "E">>, normal>>, <<<<"R", "U", "N", "N", "I", "N", "G">>, normal>>, <<<<"W", "A", "R", "N", "I", "N", "G">>, warning>>,
    <<<<"D", "E", "G", "R", "A", "D", "E", "D">>, warning>>, <<<<"F", "A", "U", "L", "T">>, fault>>, <<<<"E", "R", "R", "O", "R">>, fault>>, <<<<"O", "F", "F", "L", "I", "N", "E">>, offline>>,
    <<<<"D", "I", "S", "C", "O", "N", "N", "E", "C", "T", "E", "D">>, offline>>, <<<<"S", "T", "A", "N", "D", "B", "Y">>, standby>>, <<<<"S", "L", "E", "E", "P">>, standby>> >>

_normalize_energy_to_kwh(value, unit) ==
    LET Scaled(energy, unit_upper) ==
            CASE unit_upper = <<"W", "H">> -> Milli(energy)
              [] unit_upper = <<"M", "W", "H">> -> FMul(energy, PyFloat(1000, 1))
              [] OTHER -> energy
        Converted(energy) ==
            CASE IsNone(energy) -> PyNone
              [] ~IsNone(energy) /\ ~Truthy(unit) -> energy
              [] OTHER -> Scaled(energy, Upper(Strip(PyStrOf(unit))))
    IN  Converted(_to_float(value))

\* The extraction path with the points list taking precedence over the
\* series list.
FimerShape_points_first(p) ==
    CASE IsDict(p) /\ IsList(Get(p, "points")) -> "points"
      [] IsDict(p) /\ ~IsList(Get(p, "points")) /\ IsList(Get(p, "series")) -> "series"
      [] IsDict(p) /\ ~IsList(Get(p, "series")) /\ ~IsList(Get(p, "points")) -> "snapshot"
      [] OTHER -> "none"

\* The extraction path FimerTransformer.transform takes for a payload.
FimerShape(p) ==
    CASE IsDict(p) /\ IsList(Get(p, "series")) -> "series"
      [] IsDict(p) /\ ~IsList(Get(p, "series")) /\ IsList(Get(p, "points")) -> "points"
      [] IsDict(p) /\ ~IsList(Get(p, "series")) /\ ~IsList(Get(p, "points")) -> "snapshot"
      [] OTHER -> "none"

FimerItems(p) ==
    CASE FimerShape(p) = "series" -> Get(p, "series")[2]
      [] FimerShape(p) = "points" -> Get(p, "points")[2]
      [] FimerShape(p) = "snapshot" -> <<p>>
      [] OTHER -> <<>>

FimerSeriesRow(entry, o) ==
    LET Build(timestamp, energy) ==
            CASE IsRaise(timestamp) -> timestamp
              [] ~IsRaise(timestamp) /\ ~Truthy(timestamp) -> Skip
              [] OTHER -> Emit(_base_record(timestamp, IF ~IsNone(energy) THEN energy ELSE FZero, normal, PyNone, o.asset_id))
    IN  IF ~IsDict(entry) THEN Raise("AttributeError")
        ELSE Build(_to_iso8601(Get(entry, "date"), o.timezone), _normalize_energy_to_kwh(Get(entry, "energy"), Get(entry, "unit")))

FimerPointsRow(entry, o) ==
    LET Build(timestamp, value) ==
            CASE IsRaise(timestamp) -> timestamp
              [] ~IsRaise(timestamp) /\ ~Truthy(timestamp) -> Skip
              [] OTHER -> Emit(_base_record(timestamp, FMax(FMul(Milli(OrZero(value)), IntervalHours(o, 15)), FZero), normal, PyNone, o.asset_id))
    IN  IF ~IsDict(entry) THEN Raise("AttributeError")
        ELSE Build(_to_iso8601(Get(entry, "timestamp"), o.timezone), _to_float(Get(entry, "value")))

FimerSnapshotRow(p, o) ==
    LET Build(timestamp, status) ==
            CASE IsRaise(timestamp) -> timestamp
              [] ~IsRaise(timestamp) /\ ~Truthy(timestamp) -> Skip
              [] OTHER -> Emit(_base_record(timestamp, FZero, Lookup(FimerSTATUS_MAPPING, status, unknown), PyOr(Get(p, "message"), PyStr(status)), o.asset_id))
    IN  Build(_to_iso8601(PyOr(Get(p, "lastReportedTimestamp"), Get(p, "timestamp")), o.timezone),
              Upper(PyStrOf(GetDefault(p, "status", PyStr(unknown)))))

FimerRow(path, entry, o) ==
    CASE path = "series" -> FimerSeriesRow(entry, o)
      [] path = "points" -> FimerPointsRow(entry, o)
      [] OTHER -> FimerSnapshotRow(entry, o)

---------------------------------------------------------------------------
(* SolarEdgeTransformer *)

SolarEdgeMODE_MAPPING == <<
    <<<<"M", "P", "P", "T">>, normal>>, <<<<"O", "N">>, normal>>, <<<<"P", "R", "O", "D", "U", "C", "T", "I", "O", "N">>, normal>>, <<<<"O", "F", "F">>, offline>>,
    <<<<"S", "L", "E", "E", "P", "I", "N", "G">>, standby>>, <<<<"S", "T", "A", "R", "T", "I", "N", "G">>, standby>>, <<<<"S", "H", "U", "T", "T", "I", "N", "G", "_", "D", "O", "W", "N">>, standby>>, <<<<"S", "T", "A", "N", "D", "B", "Y">>, standby>>,
    <<<<"F", "A", "U", "L", "T">>, fault>>, <<<<"E", "R", "R", "O", "R">>, fault>>, <<<<"M", "A", "I", "N", "T", "E", "N", "A", "N", "C", "E">>, warning>>, <<<<"L", "O", "C", "K", "E", "D", "_", "G", "R", "I", "D">>, warning>>,
    <<<<"L", "O", "C", "K", "E", "D", "_", "I", "N", "T", "E", "R", "N", "A", "L">>, warning>>, <<<<"N", "I", "G", "H", "T", "_", "M", "O", "D", "E">>, standby>> >>

EmptyDict == PyDict(<<>>)

\* payload.get(outer, {}).get(inner): AttributeError when payload[outer] is
\* present and not a dict.
GetNested(p, outer, inner) == IF IsDict(GetDefault(p, outer, EmptyDict)) THEN Get(GetDefault(p, outer, EmptyDict), inner) ELSE Raise("AttributeError")

\* The extraction path SolarEdgeTransformer.transform takes, or the
\* exception raised while choosing it.
SolarEdgeShape(p) ==
    LET Power(values) ==
            CASE IsRaise(values) -> "raise"
              [] IsList(values) -> "power"
              [] OTHER -> "none"
        Energy(values) ==
            CASE IsRaise(values) -> "raise"
              [] IsList(values) -> "energy"
              [] OTHER -> Power(GetNested(p, "power", "values"))
        Telemetries(telemetries) ==
            CASE IsRaise(telemetries) -> "raise"
              [] IsList(telemetries) -> "telemetries"
              [] OTHER -> Energy(GetNested(p, "energy", "values"))
    IN  IF ~IsDict(p) THEN "none" ELSE Telemetries(GetNested(p, "data", "telemetries"))

SolarEdgeItems(p) ==
    LET Of(path) ==
            CASE path = "telemetries" -> GetNested(p, "data", "telemetries")[2]
              [] path = "energy" -> GetNested(p, "energy", "values")[2]
              [] path = "power" -> GetNested(p, "power", "values")[2]
              [] OTHER -> <<>>
    IN  Of(SolarEdgeShape(p))

\* The (source key, record key, scale) triples copied from L1Data, in order.
SolarEdgeL1Fields == <<
    <<"apparentPower", "kVA", 1000>>, <<"reactivePower", "kVAr", 1000>>, <<"cosPhi", "PF", 0>>,
    <<"acVoltage", "voltage_ac", 0>>, <<"acCurrent", "current_ac", 0>>, <<"acFrequency", "frequency", 0>> >>

RECURSIVE SolarEdgeCopyL1(_, _, _)
SolarEdgeCopyL1(l1, rec, k) ==
    LET Copy(val, key, scale) ==
            SolarEdgeCopyL1(l1, SetIf(~IsNone(val), key, IF scale # 0 THEN FDiv(val, PyFloat(scale, 1)) ELSE val, rec), k + 1)
    IN  IF k > Len(SolarEdgeL1Fields) THEN rec
        ELSE Copy(_to_float(Get(l1, SolarEdgeL1Fields[k][1])), SolarEdgeL1Fields[k][2], SolarEdgeL1Fields[k][3])

SolarEdgeTelemetryRow(t, o) ==
    LET Build(ts, power_w, mode, l1) ==
            CASE IsRaise(ts) -> ts
              [] ~IsRaise(ts) /\ ~Truthy(ts) -> Skip
              [] OTHER ->
                   Emit(SolarEdgeCopyL1(l1,
                        SetIf(~IsNone(power_w), "kW", Milli(power_w),
                        _base_record(ts, FMax(FMul(Milli(OrZero(power_w)), IntervalHours(o, 15)), FZero),
                                     Lookup(SolarEdgeMODE_MAPPING, mode, unknown), Get(t, "operationMode"), o.asset_id)), 1))
    IN  IF ~IsDict(t) THEN Raise("AttributeError")
        ELSE Build(_to_iso8601(Get(t, "date"), o.timezone), _to_float(Get(t, "totalActivePower")),
                   Upper(PyStrOf(PyOr(Get(t, "inverterMode"), PyStr(<<>>)))),
                   IF IsDict(Get(t, "L1Data")) THEN Get(t, "L1Data") ELSE EmptyDict)

SolarEdgeEnergyRow(v, o) ==
    LET Build(ts, val) ==
            CASE IsRaise(ts) -> ts
              [] ~IsRaise(ts) /\ Truthy(ts) /\ ~IsNone(val) -> Emit(_base_record(ts, FMax(Milli(val), FZero), normal, PyNone, o.asset_id))
              [] OTHER -> Skip
    IN  IF ~IsDict(v) THEN Raise("AttributeError")
        ELSE Build(_to_iso8601(Get(v, "date"), o.timezone), _to_float(Get(v, "value")))

SolarEdgePowerRow(v, o) ==
    LET Build(ts, val) ==
            CASE IsRaise(ts) -> ts
              [] ~IsRaise(ts) /\ ~Truthy(ts) -> Skip
              [] OTHER ->
                   Emit(SetIf(~IsNone(val), "kW", Milli(val),
                        _base_record(ts, FMax(FMul(Milli(OrZero(val)), IntervalHours(o, 15)), FZero),
                                     IF FLt(FZero, OrZero(val)) THEN normal ELSE standby, PyNone, o.asset_id)))
    IN  IF ~IsDict(v) THEN Raise("AttributeError")
        ELSE Build(_to_iso8601(Get(v, "date"), o.timezone), _to_float(Get(v, "value")))

SolarEdgeRow(path, entry, o) ==
    CASE path = "telemetries" -> SolarEdgeTelemetryRow(entry, o)
      [] path = "energy" -> SolarEdgeEnergyRow(entry, o)
      [] OTHER -> SolarEdgePowerRow(entry, o)

---------------------------------------------------------------------------
(* FroniusTransformer *)

FroniusSTATUS_CODE_MAPPING == <<
    <<PyInt(0), normal>>, <<PyInt(1), normal>>, <<PyInt(2), normal>>, <<PyInt(3), normal>>, <<PyInt(4), normal>>,
    <<PyInt(5), normal>>, <<PyInt(6), normal>>, <<PyInt(7), standby>>, <<PyInt(8), standby>>, <<PyInt(9), fault>>,
    <<PyInt(10), offline>>, <<PyInt(11), warning>>, <<PyInt(12), warning>> >>

\* d.get(key, {}) if isinstance(d.get(key), dict) else {}
DictAt(d, key) == IF IsDict(Get(d, key)) THEN Get(d, key) ELSE EmptyDict

\* max((energy or ((power or 0.0) * interval_hours)) / 1000.0, 0.0)
FroniusKwh(energy, power, interval_hours) == FMax(Milli(PyOr(energy, FMul(OrZero(power), interval_hours))), FZero)

FroniusSiteRecord(ts, head, site, o) ==
    LET Build(p_pv, e_day, status_code) ==
            IF IsRaise(status_code) THEN status_code
            ELSE Emit(SetIf(~IsNone(p_pv), "kW", Milli(p_pv),
                      _base_record(ts, FroniusKwh(e_day, p_pv, IntervalHours(o, 5)),
                                   IF IsNone(status_code) \/ status_code = PyInt(0) THEN normal ELSE warning,
                                   status_code, o.asset_id)))
    IN  Build(_to_float(Get(site, "P_PV")), _to_float(Get(site, "E_Day")),
              _to_int(IF IsDict(Get(head, "Status")) THEN Get(Get(head, "Status"), "Code") ELSE PyNone))

FroniusInverterRecord(ts, data_block, o) ==
    LET Build(pac, sac, day_energy, status_code, error_code) ==
            IF IsRaise(status_code) THEN status_code
            ELSE Emit(SetIf(~IsNone(sac) /\ ~IsNone(pac) /\ FLt(FZero, sac), "PF", FMax(FZero, FMin(FOne, FDiv(pac, sac))),
                      SetIf(~IsNone(sac), "kVA", Milli(sac),
                      SetIf(~IsNone(pac), "kW", Milli(pac),
                      _base_record(ts, FroniusKwh(day_energy, pac, IntervalHours(o, 5)),
                                   Lookup(FroniusSTATUS_CODE_MAPPING, PyOr(status_code, PyInt(-1)), unknown),
                                   error_code, o.asset_id)))))
    IN  Build(_to_float(_deep_get(data_block, <<"PAC", "Value">>)), _to_float(_deep_get(data_block, <<"SAC", "Value">>)),
              _to_float(_deep_get(data_block, <<"DAY_ENERGY", "Value">>)), _to_int(_deep_get(data_block, <<"DeviceStatus", "StatusCode">>)),
              _deep_get(data_block, <<"DeviceStatus", "ErrorCode">>))

FroniusMeterRecord(ts, data_block, o) ==
    LET Build(p, s, q, e, pf) ==
            Emit(SetIf(~IsNone(pf), "PF", FMax(FZero, FMin(FOne, pf)),
                 SetIf(~IsNone(q), "kVAr", Milli(q),
                 SetIf(~IsNone(s), "kVA", Milli(s),
                 SetIf(~IsNone(p), "kW", Milli(p),
                 _base_record(ts, FroniusKwh(e, p, IntervalHours(o, 5)), normal, PyNone, o.asset_id))))))
    IN  Build(_to_float(Get(data_block, "PowerReal_P_Sum")), _to_float(Get(data_block, "PowerApparent_S_Sum")),
              _to_float(Get(data_block, "PowerReactive_Q_Sum")), _to_float(Get(data_block, "EnergyReal_WAC_Sum_Produced")),
              _to_float(Get(data_block, "PowerFactor_Sum")))

\* The payload shape FroniusTransformer.transform answers for.
FroniusShape(data_block) ==
    CASE IsDict(Get(data_block, "Site")) -> "site"
      [] ~IsDict(Get(data_block, "Site")) /\ "PAC" \in DOMAIN data_block[2] -> "inverter"
      [] ~IsDict(Get(data_block, "Site")) /\ "PAC" \notin DOMAIN data_block[2] /\ IsNumber(Get(data_block, "PowerReal_P_Sum")) -> "meter"
      [] OTHER -> "none"

\* The whole of FroniusTransformer.transform on a dict payload: one record
\* or none.
FroniusRow(p, o) ==
    LET Build(head, data_block, ts, block_shape) ==
            CASE IsRaise(ts) -> ts
              [] ~IsRaise(ts) /\ ~Truthy(ts) -> Skip
              [] ~IsRaise(ts) /\ Truthy(ts) /\ block_shape = "site" -> FroniusSiteRecord(ts, head, Get(data_block, "Site"), o)
              [] ~IsRaise(ts) /\ Truthy(ts) /\ block_shape = "inverter" -> FroniusInverterRecord(ts, data_block, o)
              [] ~IsRaise(ts) /\ Truthy(ts) /\ block_shape = "meter" -> FroniusMeterRecord(ts, data_block, o)
              [] OTHER -> Skip
        Blocks(head, data_block) == Build(head, data_block, _to_iso8601(Get(head, "Timestamp"), o.timezone), FroniusShape(data_block))
    IN  Blocks(DictAt(p, "Head"), DictAt(DictAt(p, "Body"), "Data"))

---------------------------------------------------------------------------
(* SMATransformer and SolisTransformer *)

SMASEVERITY_MAPPING == <<
    <<<<"I", "N", "F", "O">>, normal>>, <<<<"W", "A", "R", "N", "I", "N", "G">>, warning>>, <<<<"M", "I", "N", "O", "R">>, warning>>,
    <<<<"M", "A", "J", "O", "R">>, critical>>, <<<<"C", "R", "I", "T", "I", "C", "A", "L">>, fault>>, <<<<"F", "A", "U", "L", "T">>, fault>> >>

SMASTATUS_FALLBACK == <<
    <<<<"O", "N", "L", "I", "N", "E">>, normal>>, <<<<"R", "U", "N", "N", "I", "N", "G">>, normal>>, <<<<"S", "T", "A", "N", "D", "B", "Y">>, standby>>,
    <<<<"O", "F", "F", "L", "I", "N", "E">>, offline>>, <<<<"E", "R", "R", "O", "R">>, fault>>, <<<<"U", "N", "K", "N", "O", "W", "N">>, unknown>> >>

SolisSTATUS_MAPPING == <<
    <<<<"N", "O", "R", "M", "A", "L">>, normal>>, <<<<"R", "U", "N", "N", "I", "N", "G">>, normal>>, <<<<"W", "A", "R", "N", "I", "N", "G">>, warning>>, <<<<"A", "L", "A", "R", "M">>, warning>>,
    <<<<"F", "A", "U", "L", "T">>, fault>>, <<<<"E", "R", "R", "O", "R">>, fault>>, <<<<"O", "F", "F", "L", "I", "N", "E">>, offline>>, <<<<"S", "T", "A", "N", "D", "B", "Y">>, standby>>,
    <<<<"S", "L", "E", "E", "P">>, standby>>, <<<<"U", "N", "K", "N", "O", "W", "N">>, unknown>> >>

\* The first of the keys whose value is a list or a dict, 0 when none is.
FirstContainer(p, keys) == IF \E i \in 1..Len(keys) : IsList(Get(p, keys[i])) \/ IsDict(Get(p, keys[i])) THEN CHOOSE i \in 1..Len(keys) : (IsList(Get(p, keys[i])) \/ IsDict(Get(p, keys[i]))) /\ \A j \in 1..(i - 1) : ~(IsList(Get(p, keys[j])) \/ IsDict(Get(p, keys[j]))) ELSE 0

_extract_records(p) ==
    LET Container(c) ==
            CASE IsList(c) -> OnlyDicts(c[2])
              [] IsDict(c) -> <<c>>
        Keyed(keys, k) == IF k = 0 THEN <<p>> ELSE Container(Get(p, keys[k]))
    IN  CASE IsDict(p) -> Keyed(<<"records", "data", "items", "result">>, FirstContainer(p, <<"records", "data", "items", "result">>))
          [] IsList(p) -> OnlyDicts(p[2])
          [] OTHER -> <<>>

\* The electrical quantities SMA and Solis copy into the record; passthrough
\* is the sequence of (source key, record key) pairs copied unscaled.
RECURSIVE CopyPassthrough(_, _, _, _)
CopyPassthrough(normalized, rec, passthrough, k) ==
    LET Copy(val) == CopyPassthrough(normalized, SetIf(~IsNone(val), passthrough[k][2], val, rec), passthrough, k + 1)
    IN  IF k > Len(passthrough) THEN rec ELSE Copy(_to_float(Get(normalized, passthrough[k][1])))

NormalizedQuantities(normalized, rec, passthrough) ==
    LET Build(p_w, q_var, s_va) ==
            CopyPassthrough(normalized,
                SetIf(~IsNone(p_w) /\ ~IsNone(s_va) /\ FLt(FZero, s_va), "PF", FMax(FZero, FMin(FOne, FDiv(p_w, s_va))),
                SetIf(~IsNone(s_va), "kVA", Milli(s_va),
                SetIf(~IsNone(q_var), "kVAr", Milli(q_var),
                SetIf(~IsNone(p_w), "kW", Milli(p_w), rec)))),
                passthrough, 1)
    IN  Build(_to_float(Get(normalized, "active_power_w")), _to_float(Get(normalized, "reactive_power_var")), _to_float(Get(normalized, "apparent_power_va")))

SMARow(r, o) ==
    LET Build(normalized, ts, e_wh, sev, status) ==
            CASE IsRaise(ts) -> ts
              [] ~IsRaise(ts) /\ ~Truthy(ts) -> Skip
              [] OTHER ->
                   Emit(NormalizedQuantities(normalized,
                        _base_record(ts, FMax(Milli(OrZero(e_wh)), FZero),
                                     Lookup(SMASEVERITY_MAPPING, sev, Lookup(SMASTATUS_FALLBACK, status, unknown)),
                                     PyOr(Get(normalized, "event_code"), Get(normalized, "status_code")), o.asset_id),
                        << <<"voltage_v", "voltage_ac">>, <<"current_a", "current_ac">>, <<"frequency_hz", "frequency">> >>))
        Parsed(normalized) ==
            Build(normalized, _to_iso8601(Get(normalized, "timestamp"), o.timezone), _to_float(Get(normalized, "active_energy_wh")),
                  Upper(PyStrOf(PyOr(Get(normalized, "event_severity"), PyStr(<<>>)))),
                  Upper(PyStrOf(PyOr(Get(normalized, "status_code"), PyStr(<<>>)))))
    IN  Parsed(IF IsDict(Get(r, "normalized")) THEN Get(r, "normalized") ELSE r)

SolisRow(r, o) ==
    LET Build(normalized, ts, p_w, e_wh, status) ==
            CASE IsRaise(ts) -> ts
              [] ~IsRaise(ts) /\ ~Truthy(ts) -> Skip
              [] OTHER ->
                   Emit(NormalizedQuantities(normalized,
                        _base_record(ts, IF ~IsNone(e_wh) THEN Milli(e_wh) ELSE FMax(FMul(Milli(OrZero(p_w)), IntervalHours(o, 5)), FZero),
                                     Lookup(SolisSTATUS_MAPPING, status, unknown),
                                     PyOr(Get(normalized, "status_code"), Get(normalized, "inverter_status")), o.asset_id),
                        << <<"voltage_v", "voltage_ac">>, <<"current_a", "current_ac">>, <<"frequency_hz", "frequency">>, <<"temperature_c", "temperature">> >>))
        Parsed(normalized) ==
            Build(normalized, _to_iso8601(Get(normalized, "timestamp"), o.timezone), _to_float(Get(normalized, "active_power_w")),
                  _to_float(Get(normalized, "active_energy_wh")),
                  Upper(PyStrOf(PyOr(PyOr(Get(normalized, "inverter_status"), Get(normalized, "status_code")), PyStr(<<"U", "N", "K", "N", "O", "W", "N">>)))))
    IN  Parsed(IF IsDict(Get(r, "normalized")) THEN Get(r, "normalized") ELSE r)

---------------------------------------------------------------------------
(* Validator (odse/validator.py) *)

valid_error_types == {normal, warning, critical, fault, offline, standby, unknown}

\* The error codes _validate_schema reports for a record, in order.
_validate_schema(rec) ==
    LET missing == SelectSeq(<<"timestamp", "kWh", "error_type">>, LAMBDA f : f \notin DOMAIN rec)
        typeErr == IF ~IsNumber(rec["kWh"]) THEN <<"TYPE_MISMATCH">> ELSE <<>>
        enumErr == IF ~(IsStr(rec["error_type"]) /\ rec["error_type"][2] \in valid_error_types) THEN <<"ENUM_MISMATCH">> ELSE <<>>
        boundErr == IF IsNumber(rec["kWh"]) /\ FLt(AsFloat(rec["kWh"]), FZero) THEN <<"OUT_OF_BOUNDS">> ELSE <<>>
        pfErr == IF "PF" \in DOMAIN rec /\ IsNumber(rec["PF"]) /\ (FLt(AsFloat(rec["PF"]), FZero) \/ FLt(FOne, AsFloat(rec["PF"]))) THEN <<"OUT_OF_BOUNDS">> ELSE <<>>
    IN  IF missing # <<>> THEN [i \in 1..Len(missing) |-> "REQUIRED_FIELD_MISSING"]
        ELSE typeErr \o enumErr \o boundErr \o pfErr

\* validate(record, level="schema").is_valid
validate(rec) == Len(_validate_schema(rec)) = 0

---------------------------------------------------------------------------
(* The calls.  Each call c of transform(data, source, **options) has its   *)
(* own locals:                                                             *)
(*   pc[c]              idle, dispatch, parse, loop, done (returned) or    *)
(*                      error (an exception propagated to the caller)      *)
(*   source, data, opts the arguments                                      *)
(*   transformer[c]     the class _get_transformer resolved                *)
(*   payload[c]         the parsed input                                   *)
(*   shape[c], items[c] the extraction path and the entries it iterates    *)
(*   idx[c]             the position of the loop in items[c]               *)
(*   prev_generation    the Solarman baseline                              *)
(*   records[c]         the output list; origin[c][k] is the position in   *)
(*                      items[c] of the entry that produced records[c][k]  *)
(*   error[c]           the exception raised, <<>> when none               *)
(*   parsed[c]          whether the input text was handed to a parser      *)
(*   api[c]             the function called: transform or transform_stream *)
(*   yielded[c]         the records the generator of transform_stream has  *)
(*                      yielded to its consumer so far                     *)

Calls == {1, 2}

transformers == <<
    <<<<"h", "u", "a", "w", "e", "i">>, "HuaweiTransformer">>, <<<<"e", "n", "p", "h", "a", "s", "e">>, "EnphaseTransformer">>, <<<<"s", "o", "l", "a", "r", "m", "a", "n">>, "SolarmanTransformer">>,
    <<<<"s", "w", "i", "t", "c", "h">>, "SwitchTransformer">>, <<<<"s", "o", "l", "a", "x", "c", "l", "o", "u", "d">>, "SolaxCloudTransformer">>, <<<<"s", "o", "l", "a", "x">>, "SolaxCloudTransformer">>,
    <<<<"f", "i", "m", "e", "r">>, "FimerTransformer">>, <<<<"a", "u", "r", "o", "r", "a", "v", "i", "s", "i", "o", "n">>, "FimerTransformer">>, <<<<"s", "o", "l", "a", "r", "e", "d", "g", "e">>, "SolarEdgeTransformer">>,
    <<<<"f", "r", "o", "n", "i", "u", "s">>, "FroniusTransformer">>, <<<<"s", "m", "a">>, "SMATransformer">>, <<<<"s", "o", "l", "i", "s">>, "SolisTransformer">>,
    <<<<"s", "o", "l", "i", "s", "c", "l", "o", "u", "d">>, "SolisTransformer">> >>

\* list(transformers.keys())
TransformerKeys == [i \in 1..Len(transformers) |-> transformers[i][1]]

CsvTransformers == {"HuaweiTransformer", "SolarmanTransformer", "SwitchTransformer"}

\* The input text: CSV text with its rows, JSON text with its value, or text
\* that is neither.
CsvText(rows) == <<"csv", rows>>

JsonText(value) == <<"json", value>>

OtherText == <<"other">>

\* json.loads(data): the value, or JSONDecodeError.
JsonLoads(d) == IF d[1] = "json" THEN d[2] ELSE Raise("JSONDecodeError")

\* list(csv.DictReader(StringIO(text))): the rows under the header; text that
\* is not CSV with data rows has none.
CsvDictReader(d) == IF d[1] = "csv" THEN d[2] ELSE <<>>

\* The extraction path a transformer picks for a parsed payload ("raise":
\* picking it raised AttributeError).
ShapeOf(cls, p) ==
    CASE cls = "FimerTransformer" -> FimerShape(p)
      [] cls = "SolarEdgeTransformer" -> SolarEdgeShape(p)
      [] OTHER -> "rows"

\* The entries a transformer's loop iterates over.
ItemsOf(cls, p) ==
    CASE cls = "EnphaseTransformer" -> EnphaseItems(p)
      [] cls = "SolaxCloudTransformer" -> _extract_solax_records(p)
      [] cls = "FimerTransformer" -> FimerItems(p)
      [] cls = "SolarEdgeTransformer" -> SolarEdgeItems(p)
      [] cls = "FroniusTransformer" -> IF IsDict(p) THEN <<p>> ELSE <<>>
      [] cls \in {"SMATransformer", "SolisTransformer"} -> _extract_records(p)
      [] OTHER -> p[2]

\* The baseline kept in one place shared by every call (an attribute of a
\* transformer object that calls share).
BaselineSlotShared(c) == 1

\* Where call c keeps its cumulative-counter baseline: in a local variable of
\* the call.
BaselineSlot(c) == c

NoOptions == [asset_id |-> PyNone, timezone |-> PyNone, interval_minutes |-> PyNone, expected_devices |-> PyNone]

Init ==
    /\ pc = [c \in Calls |-> "idle"]
    /\ source = [c \in Calls |-> <<>>]
    /\ data = [c \in Calls |-> OtherText]
    /\ opts = [c \in Calls |-> NoOptions]
    /\ transformer = [c \in Calls |-> ""]
    /\ payload = [c \in Calls |-> PyNone]
    /\ shape = [c \in Calls |-> ""]
    /\ items = [c \in Calls |-> <<>>]
    /\ idx = [c \in Calls |-> 0]
    /\ prev_generation = [c \in Calls |-> PyNone]
    /\ records = [c \in Calls |-> <<>>]
    /\ origin = [c \in Calls |-> <<>>]
    /\ error = [c \in Calls |-> <<>>]
    /\ parsed = [c \in Calls |-> FALSE]
    /\ api = [c \in Calls |-> ""]
    /\ yielded = [c \in Calls |-> <<>>]

\* The caller invokes transform(d, src, **o) as call c.
Begin(c, src, d, o) ==
    /\ pc[c] = "idle"
    /\ pc' = [pc EXCEPT ![c] = "dispatch"]
    /\ source' = [source EXCEPT ![c] = src]
    /\ data' = [data EXCEPT ![c] = d]
    /\ opts' = [opts EXCEPT ![c] = o]
    /\ api' = [api EXCEPT ![c] = "transform"]
    /\ UNCHANGED <<transformer, payload, shape, items, idx, prev_generation, records, origin, error, parsed, yielded>>

\* An exception leaves call c.
Fail(c, err) ==
    /\ pc' = [pc EXCEPT ![c] = "error"]
    /\ error' = [error EXCEPT ![c] = err]

\* _get_transformer with an unregistered source answered by the first
\* registered transformer instead of ValueError.
_get_transformer_fallback(c) ==
    /\ pc[c] = "dispatch"
    /\ transformer' = [transformer EXCEPT ![c] = Lookup(transformers, Lower(source[c]), transformers[1][2])]
    /\ pc' = [pc EXCEPT ![c] = "parse"]
    /\ UNCHANGED <<source, data, opts, payload, shape, items, idx, prev_generation, records, origin, error, parsed, api, yielded>>

\* _get_transformer looking the source up as given, not lower-cased.
_get_transformer_exact(c) ==
    /\ pc[c] = "dispatch"
    /\ IF ~HasKey(transformers, source[c])
       THEN /\ Fail(c, <<"ValueError", source[c], TransformerKeys>>)
            /\ UNCHANGED transformer
       ELSE /\ transformer' = [transformer EXCEPT ![c] = Lookup(transformers, source[c], "")]
            /\ pc' = [pc EXCEPT ![c] = "parse"]
            /\ UNCHANGED error
    /\ UNCHANGED <<source, data, opts, payload, shape, items, idx, prev_generation, records, origin, parsed, api, yielded>>

_get_transformer(c) ==
    /\ pc[c] = "dispatch"
    /\ LET source_lower == Lower(source[c])
       IN  IF ~HasKey(transformers, source_lower)
           THEN /\ Fail(c, <<"ValueError", source[c], TransformerKeys>>)
                /\ UNCHANGED transformer
           ELSE /\ transformer' = [transformer EXCEPT ![c] = Lookup(transformers, source_lower, "")]
                /\ pc' = [pc EXCEPT ![c] = "parse"]
                /\ UNCHANGED error
    /\ UNCHANGED <<source, data, opts, payload, shape, items, idx, prev_generation, records, origin, parsed, api, yielded>>

\* The start of a transformer's transform(): the payload p is parsed, the
\* locals are initialised and the loop is entered.
EnterLoop(c, p) ==
    /\ parsed' = [parsed EXCEPT ![c] = TRUE]
    /\ IF IsRaise(p) \/ ShapeOf(transformer[c], p) = "raise"
       THEN /\ Fail(c, IF IsRaise(p) THEN <<p[2]>> ELSE <<"AttributeError">>)
            /\ UNCHANGED <<payload, shape, items, idx, prev_generation, records, origin>>
       ELSE /\ payload' = [payload EXCEPT ![c] = p]
            /\ shape' = [shape EXCEPT ![c] = ShapeOf(transformer[c], p)]
            /\ items' = [items EXCEPT ![c] = ItemsOf(transformer[c], p)]
            /\ idx' = [idx EXCEPT ![c] = 1]
            /\ prev_generation' = [prev_generation EXCEPT ![BaselineSlot(c)] = PyNone]
            /\ records' = [records EXCEPT ![c] = <<>>]
            /\ origin' = [origin EXCEPT ![c] = <<>>]
            /\ pc' = [pc EXCEPT ![c] = "loop"]
            /\ UNCHANGED error
    /\ UNCHANGED <<source, data, opts, transformer, api, yielded>>

_parse_csv_rows(c) ==
    /\ pc[c] = "parse"
    /\ transformer[c] \in CsvTransformers
    /\ EnterLoop(c, PyList(CsvDictReader(data[c])))

_parse_json(c) ==
    /\ pc[c] = "parse"
    /\ transformer[c] \notin CsvTransformers
    /\ EnterLoop(c, JsonLoads(data[c]))

\* One pass of the loop of call c, a cls transformer, with outcome out.
LoopBody(c, cls, out) ==
    /\ pc[c] = "loop"
    /\ transformer[c] = cls
    /\ idx[c] <= Len(items[c])
    /\ CASE IsRaise(out) ->
              /\ Fail(c, <<out[2]>>)
              /\ UNCHANGED <<idx, records, origin>>
         [] IsEmit(out) ->
              /\ records' = [records EXCEPT ![c] = Append(@, out[2])]
              /\ origin' = [origin EXCEPT ![c] = Append(@, idx[c])]
              /\ idx' = [idx EXCEPT ![c] = @ + 1]
              /\ UNCHANGED <<pc, error>>
         [] OTHER ->
              /\ idx' = [idx EXCEPT ![c] = @ + 1]
              /\ UNCHANGED <<pc, error, records, origin>>
    /\ UNCHANGED <<source, data, opts, transformer, payload, shape, items, parsed, api, yielded>>

HuaweiTransform(c) ==
    /\ LoopBody(c, "HuaweiTransformer", HuaweiRow(items[c][idx[c]], opts[c]))
    /\ UNCHANGED prev_generation

EnphaseTransform(c) ==
    /\ LoopBody(c, "EnphaseTransformer", EnphaseRow(items[c][idx[c]], opts[c]))
    /\ UNCHANGED prev_generation

SolarmanTransform(c) ==
    /\ LoopBody(c, "SolarmanTransformer", SolarmanRow(items[c][idx[c]], opts[c], prev_generation[BaselineSlot(c)]).out)
    /\ prev_generation' = [prev_generation EXCEPT ![BaselineSlot(c)] = SolarmanRow(items[c][idx[c]], opts[c], prev_generation[BaselineSlot(c)]).prev]

SwitchTransform(c) ==
    /\ LoopBody(c, "SwitchTransformer", SwitchRow(items[c][idx[c]], opts[c]))
    /\ UNCHANGED prev_generation

SolaxCloudTransform(c) ==
    /\ LoopBody(c, "SolaxCloudTransformer", SolaxRow(items[c][idx[c]], opts[c], payload[c]))
    /\ UNCHANGED prev_generation

FimerTransform(c) ==
    /\ LoopBody(c, "FimerTransformer", FimerRow(shape[c], items[c][idx[c]], opts[c]))
    /\ UNCHANGED prev_generation

SolarEdgeTransform(c) ==
    /\ LoopBody(c, "SolarEdgeTransformer", SolarEdgeRow(shape[c], items[c][idx[c]], opts[c]))
    /\ UNCHANGED prev_generation

FroniusTransform(c) ==
    /\ LoopBody(c, "FroniusTransformer", FroniusRow(items[c][idx[c]], opts[c]))
    /\ UNCHANGED prev_generation

SMATransform(c) ==
    /\ LoopBody(c, "SMATransformer", SMARow(items[c][idx[c]], opts[c]))
    /\ UNCHANGED prev_generation

SolisTransform(c) ==
    /\ LoopBody(c, "SolisTransformer", SolisRow(items[c][idx[c]], opts[c]))
    /\ UNCHANGED prev_generation

\* The loop is over: transform returns records[c] to its caller.
Return(c) ==
    /\ pc[c] = "loop"
    /\ api[c] = "transform"
    /\ idx[c] > Len(items[c])
    /\ pc' = [pc EXCEPT ![c] = "done"]
    /\ UNCHANGED <<source, data, opts, transformer, payload, shape, items, idx, prev_generation, records, origin, error, parsed, api, yielded>>

\* The steps of call c once it has begun.
Run(c) ==
    \/ _get_transformer(c)
    \/ _parse_csv_rows(c)
    \/ _parse_json(c)
    \/ HuaweiTransform(c)
    \/ EnphaseTransform(c)
    \/ SolarmanTransform(c)
    \/ SwitchTransform(c)
    \/ SolaxCloudTransform(c)
    \/ FimerTransform(c)
    \/ SolarEdgeTransform(c)
    \/ FroniusTransform(c)
    \/ SMATransform(c)
    \/ SolisTransform(c)
    \/ Return(c)


\* The caller invokes transform_stream(d, src, **o) as call c.  It is a
\* generator function: the call returns a generator object and runs none of
\* its body.
StreamBegin(c, src, d, o) ==
    /\ pc[c] = "idle"
    /\ pc' = [pc EXCEPT ![c] = "created"]
    /\ source' = [source EXCEPT ![c] = src]
    /\ data' = [data EXCEPT ![c] = d]
    /\ opts' = [opts EXCEPT ![c] = o]
    /\ api' = [api EXCEPT ![c] = "transform_stream"]
    /\ UNCHANGED <<transformer, payload, shape, items, idx, prev_generation, records, origin, error, parsed, yielded>>

\* The consumer asks the generator of call c for its first record: the body
\* of transform_stream starts, at _get_transformer(source).
StreamStart(c) ==
    /\ pc[c] = "created"
    /\ pc' = [pc EXCEPT ![c] = "dispatch"]
    /\ UNCHANGED <<source, data, opts, transformer, payload, shape, items, idx, prev_generation, records, origin, error, parsed, api, yielded>>

\* BaseTransformer.transform_stream: self.transform(data, **kwargs) has
\* returned its list to `yield from`.
StreamCollect(c) ==
    /\ pc[c] = "loop"
    /\ api[c] = "transform_stream"
    /\ idx[c] > Len(items[c])
    /\ pc' = [pc EXCEPT ![c] = "yield"]
    /\ UNCHANGED <<source, data, opts, transformer, payload, shape, items, idx, prev_generation, records, origin, error, parsed, api, yielded>>

\* `yield from` handing the list over from its end.
StreamYieldReversed(c) ==
    /\ pc[c] = "yield"
    /\ Len(yielded[c]) < Len(records[c])
    /\ yielded' = [yielded EXCEPT ![c] = Append(@, records[c][Len(records[c]) - Len(@)])]
    /\ UNCHANGED <<pc, source, data, opts, transformer, payload, shape, items, idx, prev_generation, records, origin, error, parsed, api>>

\* `yield from` yields the next record of the list to the consumer.
StreamYield(c) ==
    /\ pc[c] = "yield"
    /\ Len(yielded[c]) < Len(records[c])
    /\ yielded' = [yielded EXCEPT ![c] = Append(@, records[c][Len(@) + 1])]
    /\ UNCHANGED <<pc, source, data, opts, transformer, payload, shape, items, idx, prev_generation, records, origin, error, parsed, api>>

\* The list is exhausted: the generator of call c finishes.
StreamStop(c) ==
    /\ pc[c] = "yield"
    /\ Len(yielded[c]) = Len(records[c])
    /\ pc' = [pc EXCEPT ![c] = "done"]
    /\ UNCHANGED <<source, data, opts, transformer, payload, shape, items, idx, prev_generation, records, origin, error, parsed, api, yielded>>

\* The steps of the generator of call c once it is created.
RunStream(c) ==
    \/ StreamStart(c)
    \/ StreamCollect(c)
    \/ StreamYield(c)
    \/ StreamStop(c)
---------------------------------------------------------------------------
(* Inputs *)

\* The most rows or entries an input carries.
MaxRows == 2

\* The number of distinct rows or entries mixed in an input of several.
MaxMixed == 2

\* The sequences over S of length at most n.
SeqsUpTo(S, n) == UNION {[1..k -> S] : k \in 0..n}

Elements(rows) == {rows[i] : i \in 1..Len(rows)}

\* The inputs built from the rows of a vendor: each row alone, and every
\* sequence of at most MaxRows of its first MaxMixed rows.
RowLists(rows) ==
    {<<rows[i]>> : i \in 1..Len(rows)}
    \cup SeqsUpTo({rows[i] : i \in 1..(IF Len(rows) < MaxMixed THEN Len(rows) ELSE MaxMixed)}, MaxRows)

GoodTime == PyStr(<<"2", "0", "2", "6", "-", "0", "2", "-", "0", "9", " ", "1", "2", ":", "0", "0", ":", "0", "0">>)

IsoTime == PyStr(<<"2", "0", "2", "6", "-", "0", "2", "-", "0", "9", "T", "1", "2", ":", "0", "0", ":", "0", "0", "Z">>)

BadTime == PyStr(<<"g", "a", "r", "b", "a", "g", "e">>)

Blank == PyStr(<<>>)

FullOptions == [asset_id |-> PyStr(<<"A", "1">>), timezone |-> PyStr(<<"+", "0", "2", ":", "0", "0">>), interval_minutes |-> PyInt(15), expected_devices |-> PyInt(10)]

OddOptions == [asset_id |-> Blank, timezone |-> PyStr(<<"0", "2", "0", "0">>), interval_minutes |-> PyInt(0), expected_devices |-> PyInt(0)]

OptionSets == {NoOptions, FullOptions, OddOptions}

HuaweiCsvRow(ts, power, state, run) == PyDict([timestamp |-> ts, power |-> PyStr(power), inverter_state |-> PyStr(state), run_state |-> PyStr(run)])

HuaweiRows == <<
    HuaweiCsvRow(GoodTime, <<"1", "0">>, <<"9", "9", "9">>, <<"1">>),
    HuaweiCsvRow(GoodTime, <<"a", "b", "c">>, <<>>, <<>>),
    HuaweiCsvRow(GoodTime, <<"1", "0">>, <<"5", "1", "2">>, <<"0">>),
    HuaweiCsvRow(GoodTime, <<"6">>, <<"5", "1", "3">>, <<"1">>),
    HuaweiCsvRow(GoodTime, <<"-", "4">>, <<"7", "6", "8">>, <<>>),
    HuaweiCsvRow(GoodTime, <<>>, <<"7", "6", "9">>, <<"1">>),
    HuaweiCsvRow(BadTime, <<"1", "0">>, <<"5", "1", "2">>, <<"1">>),
    HuaweiCsvRow(Blank, <<"1", "0">>, <<"0">>, <<"2">>) >>

EnphaseItem(end_at, wh_del, devices) == PyDict([end_at |-> end_at, wh_del |-> wh_del, devices_reporting |-> devices])

EnphaseEntries == <<
    EnphaseItem(PyInt(1739102400), PyInt(3500), PyInt(9)),
    EnphaseItem(PyInt(1739102400), PyInt(0), PyInt(0)),
    EnphaseItem(PyInt(1739102400), PyInt(-5), PyInt(12)),
    EnphaseItem(PyStr(<<"1", "7", "3", "9", "1", "0", "2", "4", "0", "0">>), PyStr(<<"3", "5", "0", "0">>), PyNone),
    EnphaseItem(PyNone, PyInt(3500), PyInt(9)),
    EnphaseItem(PyInt(1739102400), PyNone, PyInt(9)),
    PyInt(7) >>

EnphasePayloads ==
    {PyList(s) : s \in RowLists(EnphaseEntries)}
    \cup {PyDict([production |-> PyList(<<e>>)]) : e \in Elements(EnphaseEntries)}
    \cup {EnphaseItem(PyInt(1739102400), PyInt(3500), PyInt(10)), PyInt(3)}

SolarmanCsvRow(ts, generation, state, power) == PyDict(("Update Time" :> ts) @@ ("Generation(kWh)" :> PyStr(generation)) @@ ("Device State" :> PyStr(state)) @@ ("Power(W)" :> PyStr(power)))

SolarmanRows == <<
    SolarmanCsvRow(GoodTime, <<"1", "0", "0">>, <<"O", "p", "e", "r", "a", "t", "i", "n", "g">>, <<"5", "0", "0">>),
    SolarmanCsvRow(GoodTime, <<"1", "0", "6">>, <<" ", "s", "t", "a", "n", "d", "b", "y">>, <<"0">>),
    SolarmanCsvRow(GoodTime, <<"9", "0">>, <<"W", "e", "i", "r", "d">>, <<"-", "5">>),
    SolarmanCsvRow(GoodTime, <<>>, <<>>, <<"5", "0", "0">>),
    SolarmanCsvRow(BadTime, <<"1", "0", "0">>, <<"N", "o", "r", "m", "a", "l">>, <<"5", "0", "0">>),
    SolarmanCsvRow(GoodTime, <<"1", "0", "0">>, <<>>, <<>>),
    SolarmanCsvRow(GoodTime, <<"1", "0", "0">>, <<>>, <<"0">>) >>

SwitchCsvRow(ts, p1, p2, q1, q2) == PyDict([timestampISO |-> ts, dP1 |-> PyStr(p1), dP2 |-> PyStr(p2), dQ1 |-> PyStr(q1), dQ2 |-> PyStr(q2)])

SwitchRows == <<
    SwitchCsvRow(GoodTime, <<"3">>, <<>>, <<"4">>, <<>>),
    SwitchCsvRow(GoodTime, <<"0">>, <<"7">>, <<"0">>, <<"9">>),
    SwitchCsvRow(GoodTime, <<"-", "3">>, <<>>, <<"4">>, <<>>),
    SwitchCsvRow(GoodTime, <<>>, <<"3">>, <<>>, <<"4">>),
    SwitchCsvRow(GoodTime, <<>>, <<>>, <<>>, <<>>),
    SwitchCsvRow(BadTime, <<"3">>, <<>>, <<"4">>, <<>>),
    SwitchCsvRow(GoodTime, <<"3">>, <<>>, <<>>, <<>>) >>

SolaxEntry(ts, acpower, yieldtoday, status) == PyDict([uploadTime |-> ts, acpower |-> acpower, yieldtoday |-> yieldtoday, inverterStatus |-> status])

SolaxEntries == <<
    SolaxEntry(GoodTime, PyInt(4200), PyInt(18), PyStr(<<"1", "0", "2">>)),
    SolaxEntry(GoodTime, PyInt(4200), PyInt(-1), PyInt(102)),
    SolaxEntry(GoodTime, PyInt(-100), PyNone, PyStr(<<"9", "9", "9">>)),
    SolaxEntry(GoodTime, PyNone, PyNone, PyNone),
    SolaxEntry(BadTime, PyInt(4200), PyInt(18), PyStr(<<"1", "0", "2">>)),
    SolaxEntry(GoodTime, PyInt(4200), PyInt(0), PyStr(<<"1", "0", "4">>)) >>

SolaxPayloads ==
    {PyDict([code |-> PyInt(0), result |-> PyList(s)]) : s \in RowLists(SolaxEntries)}
    \cup {PyDict([result |-> e]) : e \in Elements(SolaxEntries)}
    \cup {PyDict([code |-> PyInt(1001), data |-> e]) : e \in Elements(SolaxEntries)}
    \cup {PyDict([data |-> PyList(<<e, PyInt(1)>>)]) : e \in Elements(SolaxEntries)}
    \cup {PyList(<<e>>) : e \in Elements(SolaxEntries)}
    \cup {PyDict([code |-> PyInt(0)]), PyInt(3)}

FimerSeriesEntry(date, energy, unit) == PyDict([date |-> date, energy |-> energy, unit |-> unit])

FimerSeriesEntries == <<
    FimerSeriesEntry(PyStr(<<"2", "0", "2", "6", "-", "0", "2", "-", "0", "8">>), PyInt(15000), PyStr(<<"W", "h">>)),
    FimerSeriesEntry(GoodTime, PyInt(2), PyStr(<<" ", "m", "w", "h">>)),
    FimerSeriesEntry(GoodTime, PyInt(-3), PyNone),
    FimerSeriesEntry(GoodTime, PyNone, PyStr(<<"k", "W", "h">>)),
    FimerSeriesEntry(BadTime, PyInt(5), PyStr(<<"W", "h">>)) >>

FimerPointEntry(ts, value) == PyDict([timestamp |-> ts, value |-> value])

FimerPointEntries == <<
    FimerPointEntry(GoodTime, PyInt(1000)),
    FimerPointEntry(GoodTime, PyInt(-50)),
    FimerPointEntry(GoodTime, PyNone),
    FimerPointEntry(BadTime, PyInt(1)) >>

FimerSnapshots == {
    PyDict([lastReportedTimestamp |-> GoodTime, status |-> PyStr(<<"o", "k">>), message |-> PyNone]),
    PyDict([timestamp |-> IsoTime, status |-> PyStr(<<"W", "e", "i", "r", "d">>)]),
    PyDict([timestamp |-> GoodTime]),
    PyDict([timestamp |-> GoodTime, status |-> PyNone]),
    PyDict([lastReportedTimestamp |-> BadTime, status |-> PyStr(<<"o", "k">>)]),
    PyDict([lastReportedTimestamp |-> GoodTime, status |-> PyStr(<<"f", "a", "u", "l", "t">>), message |-> PyStr(<<"E", "5">>)]),
    PyDict([timestamp |-> GoodTime, status |-> PyStr(<<"o", "k">>), series |-> PyNone, points |-> PyDict(<<>>)]) }

FimerPayloads ==
    {PyDict([series |-> PyList(s)]) : s \in RowLists(FimerSeriesEntries)}
    \cup {PyDict([points |-> PyList(s)]) : s \in RowLists(FimerPointEntries)}
    \cup {PyDict([series |-> PyList(<<e>>), points |-> PyList(<<f>>), timestamp |-> GoodTime, status |-> PyStr(<<"f", "a", "u", "l", "t">>)]) : e \in Elements(FimerSeriesEntries), f \in Elements(FimerPointEntries)}
    \cup FimerSnapshots
    \cup {PyList(<<>>)}

SolarEdgeTelemetry(date, power, mode, op, l1) == PyDict([date |-> date, totalActivePower |-> power, inverterMode |-> mode, operationMode |-> op, L1Data |-> l1])

SolarEdgeTelemetries == <<
    SolarEdgeTelemetry(GoodTime, PyInt(5000), PyStr(<<"M", "P", "P", "T">>), PyInt(1), PyDict([apparentPower |-> PyInt(5200), reactivePower |-> PyInt(400), cosPhi |-> PyFloat(96, 100)])),
    SolarEdgeTelemetry(GoodTime, PyInt(-20), PyStr(<<"f", "a", "u", "l", "t">>), PyNone, PyDict([cosPhi |-> PyFloat(-1, 2), acVoltage |-> PyInt(230)])),
    SolarEdgeTelemetry(GoodTime, PyNone, PyNone, PyNone, PyNone),
    SolarEdgeTelemetry(GoodTime, PyInt(10), PyStr(<<"w", "e", "i", "r", "d">>), PyInt(0), PyDict([cosPhi |-> PyInt(2), acCurrent |-> PyInt(3), acFrequency |-> PyInt(50)])),
    SolarEdgeTelemetry(BadTime, PyInt(5000), PyStr(<<"M", "P", "P", "T">>), PyInt(1), PyNone) >>

SolarEdgeValue(date, value) == PyDict([date |-> date, value |-> value])

SolarEdgeValues == <<
    SolarEdgeValue(GoodTime, PyInt(1500)),
    SolarEdgeValue(GoodTime, PyInt(0)),
    SolarEdgeValue(GoodTime, PyInt(-5)),
    SolarEdgeValue(GoodTime, PyNone),
    SolarEdgeValue(BadTime, PyInt(1)) >>

SolarEdgePayloads ==
    {PyDict([data |-> PyDict([telemetries |-> PyList(s)])]) : s \in RowLists(SolarEdgeTelemetries)}
    \cup {PyDict([energy |-> PyDict([values |-> PyList(s)])]) : s \in RowLists(SolarEdgeValues)}
    \cup {PyDict([power |-> PyDict([values |-> PyList(s)])]) : s \in RowLists(SolarEdgeValues)}
    \cup {EmptyDict, PyDict([data |-> PyNone]), PyDict([energy |-> PyList(<<>>)]), PyList(<<>>)}

FroniusPayload(ts, head_status, data_block) == PyDict([Head |-> PyDict([Timestamp |-> ts, Status |-> head_status]), Body |-> PyDict([Data |-> data_block])])

FroniusSite(p_pv, e_day) == PyDict([Site |-> PyDict([P_PV |-> p_pv, E_Day |-> e_day])])

FroniusInverter(pac, sac, day_energy, status) == PyDict([PAC |-> PyDict([Value |-> pac]), SAC |-> PyDict([Value |-> sac]), DAY_ENERGY |-> PyDict([Value |-> day_energy]), DeviceStatus |-> status])

FroniusMeter(p, s, q, e, pf) == PyDict([PowerReal_P_Sum |-> p, PowerApparent_S_Sum |-> s, PowerReactive_Q_Sum |-> q, EnergyReal_WAC_Sum_Produced |-> e, PowerFactor_Sum |-> pf])

FroniusStatusCodes == {PyNone, PyInt(0), PyInt(7), PyInt(9), PyInt(12), PyInt(99)}

FroniusPayloads ==
    {FroniusPayload(IsoTime, PyDict([Code |-> code]), FroniusSite(PyInt(4200), e)) : code \in {PyNone, PyInt(0), PyInt(5)}, e \in {PyInt(13500), PyInt(0), PyInt(-5), PyNone}}
    \cup {FroniusPayload(GoodTime, PyNone, FroniusInverter(PyInt(1000), PyInt(1250), PyInt(500), PyDict([StatusCode |-> code, ErrorCode |-> PyInt(0)]))) : code \in FroniusStatusCodes}
    \cup {FroniusPayload(GoodTime, PyNone, FroniusInverter(pac, sac, PyNone, PyNone)) : pac \in {PyInt(-10), PyInt(20), PyNone}, sac \in {PyInt(0), PyInt(5), PyNone}}
    \cup {FroniusPayload(GoodTime, PyNone, FroniusMeter(PyInt(1000), PyInt(1250), PyInt(-750), e, pf)) : e \in {PyInt(5000), PyNone}, pf \in {PyFloat(4, 5), PyInt(-1), PyInt(2), PyNone}}
    \cup {FroniusPayload(BadTime, PyNone, FroniusSite(PyInt(4200), PyInt(13500))), FroniusPayload(GoodTime, PyNone, EmptyDict), EmptyDict, PyList(<<>>)}

NormalizedEntry(ts, p_w, e_wh, s_va, status, extra) == PyDict(extra @@ [timestamp |-> ts, active_power_w |-> p_w, active_energy_wh |-> e_wh, apparent_power_va |-> s_va, status_code |-> status])

SMAEntries == <<
    NormalizedEntry(IsoTime, PyInt(3000), PyInt(2500), PyNone, PyStr(<<"O", "N", "L", "I", "N", "E">>), [event_severity |-> PyStr(<<"w", "a", "r", "n", "i", "n", "g">>), event_code |-> PyStr(<<"E", "1", "0", "1">>)]),
    NormalizedEntry(GoodTime, PyInt(3000), PyInt(-5), PyInt(4000), PyStr(<<"o", "f", "f", "l", "i", "n", "e">>), [voltage_v |-> PyInt(230)]),
    NormalizedEntry(GoodTime, PyInt(-30), PyNone, PyInt(10), PyStr(<<"w", "e", "i", "r", "d">>), [event_severity |-> PyStr(<<"w", "e", "i", "r", "d">>), reactive_power_var |-> PyInt(5)]),
    NormalizedEntry(GoodTime, PyNone, PyNone, PyNone, PyNone, <<>>),
    NormalizedEntry(BadTime, PyInt(3000), PyInt(2500), PyNone, PyStr(<<"O", "N", "L", "I", "N", "E">>), <<>>),
    NormalizedEntry(GoodTime, PyInt(5000), PyInt(0), PyInt(4000), PyNone, [event_severity |-> PyStr(<<"M", "a", "j", "o", "r">>), current_a |-> PyInt(3), frequency_hz |-> PyInt(50)]) >>

SolisEntries == <<
    NormalizedEntry(IsoTime, PyInt(4600), PyNone, PyNone, PyStr(<<"2", "0", "0">>), [inverter_status |-> PyStr(<<"r", "u", "n", "n", "i", "n", "g">>), temperature_c |-> PyInt(41)]),
    NormalizedEntry(GoodTime, PyInt(100), PyInt(-7), PyInt(50), PyStr(<<"F", "A", "U", "L", "T">>), <<>>),
    NormalizedEntry(GoodTime, PyNone, PyNone, PyNone, PyNone, <<>>),
    NormalizedEntry(GoodTime, PyInt(-10), PyNone, PyInt(5), PyNone, [inverter_status |-> PyStr(<<"w", "e", "i", "r", "d">>)]),
    NormalizedEntry(BadTime, PyInt(4600), PyNone, PyNone, PyStr(<<"2", "0", "0">>), <<>>) >>

\* The wrappers _extract_records unwraps.
NormalizedPayloads(entries) ==
    {PyDict([records |-> PyList([i \in 1..Len(s) |-> PyDict([normalized |-> s[i]])])]) : s \in RowLists(entries)}
    \cup {PyList(<<e, PyInt(1)>>) : e \in Elements(entries)}
    \cup {PyDict([data |-> e]) : e \in Elements(entries)}
    \cup Elements(entries)
    \cup {PyInt(3)}

\* The input texts tried on a transformer class ("" when the source is not
\* registered).
DataFor(cls) ==
    CASE cls = "HuaweiTransformer" -> {CsvText(s) : s \in RowLists(HuaweiRows)} \cup {OtherText}
      [] cls = "EnphaseTransformer" -> {JsonText(p) : p \in EnphasePayloads} \cup {OtherText}
      [] cls = "SolarmanTransformer" -> {CsvText(s) : s \in RowLists(SolarmanRows)} \cup {OtherText}
      [] cls = "SwitchTransformer" -> {CsvText(s) : s \in RowLists(SwitchRows)} \cup {OtherText}
      [] cls = "SolaxCloudTransformer" -> {JsonText(p) : p \in SolaxPayloads} \cup {OtherText}
      [] cls = "FimerTransformer" -> {JsonText(p) : p \in FimerPayloads} \cup {OtherText}
      [] cls = "SolarEdgeTransformer" -> {JsonText(p) : p \in SolarEdgePayloads} \cup {OtherText}
      [] cls = "FroniusTransformer" -> {JsonText(p) : p \in FroniusPayloads} \cup {OtherText}
      [] cls = "SMATransformer" -> {JsonText(p) : p \in NormalizedPayloads(SMAEntries)} \cup {OtherText}
      [] cls = "SolisTransformer" -> {JsonText(p) : p \in NormalizedPayloads(SolisEntries)} \cup {OtherText}
      [] OTHER -> {JsonText(EmptyDict), CsvText(<<>>), OtherText}

\* The source identifiers tried: every registered key, case variants and
\* identifiers that are not registered.
Sources == {transformers[i][1] : i \in 1..Len(transformers)} \cup {<<"H", "u", "a", "W", "e", "i">>, <<"S", "O", "L", "I", "S">>, <<"S", "o", "l", "a", "x">>, <<"n", "o", "t", "-", "a", "-", "r", "e", "a", "l", "-", "s", "o", "u", "r", "c", "e">>, <<"h", "u", "a", "w", "e", "i", " ">>, <<>>}

\* transform(data, source, asset_id, timezone, **kwargs) is called.
transform(c) ==
    \E src \in Sources, o \in OptionSets :
        \E d \in DataFor(Lookup(transformers, Lower(src), "")) : Begin(c, src, d, o)

Next == transform(1) \/ Run(1)

Spec == Init /\ [][Next]_vars

---------------------------------------------------------------------------
(* Properties of the records transform returns (specification Spec) *)

\* Call c has returned its records.
Returned(c) == pc[c] = "done"

\* Call c has left _get_transformer.
Dispatched(c) == pc[c] \in {"parse", "loop", "done", "error"}

\* C1: for every vendor transformer and every input, each record returned by
\* transform has kWh >= 0, also when the energy is a vendor-reported value.
KwhNonNegative ==
    \A c \in Calls : Returned(c) =>
        \A i \in 1..Len(records[c]) : FLe(FZero, AsFloat(records[c][i]["kWh"]))

\* C2: for every vendor transformer and every input, PF lies in [0, 1] in
\* every returned record that has it, whether the PF was reported by the
\* vendor or derived as kW/kVA.
PfInUnitInterval ==
    \A c \in Calls : Returned(c) =>
        \A i \in 1..Len(records[c]) :
            "PF" \in DOMAIN records[c][i] =>
                FLe(FZero, AsFloat(records[c][i]["PF"])) /\ FLe(AsFloat(records[c][i]["PF"]), FOne)

\* C3: status classification is total: for every vendor and every native
\* status (in its table, absent from its table, or missing) the error_type of
\* every emitted record is present and is one of normal, warning, critical,
\* fault, offline, standby, unknown.
ErrorTypeInEnum ==
    \A c \in Calls : \A i \in 1..Len(records[c]) :
        /\ "error_type" \in DOMAIN records[c][i]
        /\ IsStr(records[c][i]["error_type"])
        /\ records[c][i]["error_type"][2] \in valid_error_types

\* A Huawei call has returned a record for a row whose inverter state is in
\* no table, and one for a row with no inverter state at all.
ErrorTypeInEnumWitness ==
    \E c \in Calls :
        /\ Returned(c)
        /\ transformer[c] = "HuaweiTransformer"
        /\ Len(records[c]) = 2
        /\ Get(items[c][origin[c][1]], "inverter_state") = PyStr(<<"9", "9", "9">>)
        /\ Get(items[c][origin[c][2]], "inverter_state") = Blank
        /\ records[c][1]["error_type"] = PyStr(unknown)
        /\ records[c][2]["error_type"] = PyStr(unknown)

\* C4: every record returned by transform, for any vendor and any input,
\* passes the validator's schema check (validate(record, level="schema")
\* gives is_valid = true).
RecordsPassSchema ==
    \A c \in Calls : Returned(c) =>
        \A i \in 1..Len(records[c]) : validate(records[c][i])

\* C10: transform with a source that is not registered (after lower-casing)
\* fails with an error that lists every registered identifier; the input is
\* never parsed and no records are returned.
UnknownSourceFails ==
    \A c \in Calls :
        (Dispatched(c) /\ ~HasKey(transformers, Lower(source[c]))) =>
            /\ pc[c] = "error"
            /\ error[c][1] = "ValueError"
            /\ error[c][2] = source[c]
            /\ \A i \in 1..Len(transformers) : \E j \in 1..Len(error[c][3]) : error[c][3][j] = transformers[i][1]
            /\ ~parsed[c]
            /\ records[c] = <<>>

\* A call with a source that differs from a registered key only by a
\* trailing space has failed.
UnknownSourceFailsWitness ==
    \E c \in Calls :
        /\ pc[c] = "error"
        /\ source[c] = <<"h", "u", "a", "w", "e", "i", " ">>
        /\ data[c] = CsvText(<<>>)
        /\ Len(error[c]) = 3

---------------------------------------------------------------------------
(* The cumulative counter of SolarmanTransformer (specification SpecCounter) *)

\* The most rows of a cumulative-counter input.
MaxCounterRows == 3

SolarmanCounterRows == {
    SolarmanCsvRow(GoodTime, <<"1", "0", "0">>, <<"O", "p", "e", "r", "a", "t", "i", "n", "g">>, <<"5", "0", "0">>),
    SolarmanCsvRow(GoodTime, <<"1", "0", "6">>, <<"s", "t", "a", "n", "d", "b", "y">>, <<"0">>),
    SolarmanCsvRow(GoodTime, <<"9", "0">>, <<>>, <<>>),
    SolarmanCsvRow(GoodTime, <<>>, <<>>, <<"5", "0", "0">>),
    SolarmanCsvRow(GoodTime, <<>>, <<>>, <<>>),
    SolarmanCsvRow(BadTime, <<"1", "2", "0">>, <<"N", "o", "r", "m", "a", "l">>, <<"5", "0", "0">>) }

\* transform(data, "solarman", **o) is called on a CSV of counter readings.
transformCounter(c) ==
    \E rows \in SeqsUpTo(SolarmanCounterRows, MaxCounterRows), o \in {NoOptions, FullOptions} :
        Begin(c, <<"s", "o", "l", "a", "r", "m", "a", "n">>, CsvText(rows), o)

NextCounter ==
    \/ transformCounter(1)
    \/ _get_transformer(1)
    \/ _parse_csv_rows(1)
    \/ SolarmanTransform(1)
    \/ Return(1)

SpecCounter == Init /\ [][NextCounter]_vars

\* The fields of a Solarman row as the loop body reads them.
SolarmanTimestampOf(row, o) == _to_iso8601(_first_value(row, <<"update_time", "Update Time", "Time", "Timestamp">>), o.timezone)

SolarmanGenerationOf(row) == _to_float(_first_value(row, <<"generation", "Generation(kWh)", "Total Generation", "Cumulative Energy">>))

SolarmanPowerOf(row) == _to_float(_first_value(row, <<"power", "Power(W)", "Active Power", "Output Power">>))

\* The reading of the row that record k of call c was emitted for.
ReadingOf(c, k) == SolarmanGenerationOf(items[c][origin[c][k]])

\* C5: within one Solarman call the first emitted record has kWh = 0 and
\* every later one has kWh = max(its reading - the reading of the previously
\* emitted row, 0): a decrease gives kWh = 0, never a negative value and
\* never an error, and the lower reading is the next baseline.
CounterDelta ==
    \A c \in Calls : transformer[c] = "SolarmanTransformer" =>
        /\ pc[c] # "error"
        /\ \A k \in 1..Len(records[c]) :
               records[c][k]["kWh"] =
                   IF k > 1 /\ FLt(ReadingOf(c, k - 1), ReadingOf(c, k))
                   THEN FSub(ReadingOf(c, k), ReadingOf(c, k - 1))
                   ELSE FZero

\* A call has returned three records for readings 106, 90, 100: the decrease
\* gave 0 and the next increase is counted from the lower reading.
CounterDeltaWitness ==
    \E c \in Calls :
        /\ Returned(c)
        /\ Len(records[c]) = 3
        /\ ReadingOf(c, 1) = PyFloat(106, 1)
        /\ ReadingOf(c, 2) = PyFloat(90, 1)
        /\ ReadingOf(c, 3) = PyFloat(100, 1)
        /\ records[c][2]["kWh"] = FZero
        /\ records[c][3]["kWh"] = PyFloat(10, 1)

\* C6: a Solarman row with a parsable timestamp and no cumulative reading is
\* skipped only if it has no instantaneous power either; with power present
\* it is emitted with kWh = power_W / 1000 * interval_minutes / 60.
MissingReadingEstimated ==
    \A c \in Calls : (Returned(c) /\ transformer[c] = "SolarmanTransformer") =>
        \A j \in 1..Len(items[c]) :
            (Truthy(SolarmanTimestampOf(items[c][j], opts[c])) /\ IsNone(SolarmanGenerationOf(items[c][j]))) =>
                IF IsNone(SolarmanPowerOf(items[c][j]))
                THEN \A k \in 1..Len(origin[c]) : origin[c][k] # j
                ELSE \E k \in 1..Len(origin[c]) :
                        /\ origin[c][k] = j
                        /\ records[c][k]["kWh"] = FMul(Milli(SolarmanPowerOf(items[c][j])), IntervalHours(opts[c], 5))

---------------------------------------------------------------------------
(* Calls interleaved row by row (specification SpecConcurrent) *)

\* The most rows of an input of interleaved calls.
MaxConcRows == 2

ConcurrentInputs ==
    {<<<<"s", "o", "l", "a", "r", "m", "a", "n">>, CsvText(rows)>> : rows \in SeqsUpTo({SolarmanCsvRow(GoodTime, <<"1", "0", "0">>, <<"O", "p", "e", "r", "a", "t", "i", "n", "g">>, <<"5", "0", "0">>), SolarmanCsvRow(GoodTime, <<"1", "0", "6">>, <<"s", "t", "a", "n", "d", "b", "y">>, <<"0">>)}, MaxConcRows)}
    \cup {<<<<"h", "u", "a", "w", "e", "i">>, CsvText(rows)>> : rows \in SeqsUpTo({HuaweiCsvRow(GoodTime, <<"1", "0">>, <<"5", "1", "2">>, <<"1">>)}, MaxConcRows)}

\* One of two callers invokes transform.
transformConcurrent(c) == \E input \in ConcurrentInputs : Begin(c, input[1], input[2], NoOptions)

NextConcurrent ==
    \E c \in Calls :
        \/ transformConcurrent(c)
        \/ _get_transformer(c)
        \/ _parse_csv_rows(c)
        \/ SolarmanTransform(c)
        \/ HuaweiTransform(c)
        \/ Return(c)

SpecConcurrent == Init /\ [][NextConcurrent]_vars

\* The records SolarmanTransformer.transform returns for rows when it runs
\* alone, its baseline prev carried from row to row.
RECURSIVE SolarmanRecords(_, _, _)
SolarmanRecords(rows, o, prev) ==
    LET Rest(step) == (IF IsEmit(step.out) THEN <<step.out[2]>> ELSE <<>>) \o SolarmanRecords(Tail(rows), o, step.prev)
    IN  IF rows = <<>> THEN <<>> ELSE Rest(SolarmanRow(Head(rows), o, prev))

\* C7: the cumulative-counter baseline is local to one call: the records a
\* Solarman call returns are those of that call run alone on its input,
\* whatever calls of the same or another vendor ran before it or interleaved
\* with it row by row, and their first kWh is 0.
BaselineLocal ==
    \A c \in Calls : (Returned(c) /\ transformer[c] = "SolarmanTransformer") =>
        /\ records[c] = SolarmanRecords(CsvDictReader(data[c]), opts[c], PyNone)
        /\ records[c] # <<>> => records[c][1]["kWh"] = FZero

\* Two Solarman calls on the same two readings have both returned: the same
\* records, kWh 0 then 6.
BaselineLocalWitness ==
    /\ Returned(1) /\ Returned(2)
    /\ transformer[1] = "SolarmanTransformer" /\ transformer[2] = "SolarmanTransformer"
    /\ data[1] = data[2]
    /\ Len(records[1]) = 2
    /\ records[1][1]["kWh"] = FZero
    /\ records[1][2]["kWh"] = PyFloat(6, 1)
    /\ records[2] = records[1]

---------------------------------------------------------------------------
(* The reporting ratio of EnphaseTransformer (specification SpecRatio) *)

\* The most devices reporting or expected.
MaxDevices == 20

\* transform(data, "enphase", expected_devices=e) is called on one interval
\* with d devices reporting (or no count).
transformRatio(c) ==
    \E d \in {PyNone} \cup {PyInt(n) : n \in 0..MaxDevices}, e \in 1..MaxDevices :
        Begin(c, <<"e", "n", "p", "h", "a", "s", "e">>, JsonText(PyList(<<EnphaseItem(PyInt(1739102400), PyInt(3500), d)>>)), [NoOptions EXCEPT !.expected_devices = PyInt(e)])

NextRatio ==
    \/ transformRatio(1)
    \/ _get_transformer(1)
    \/ _parse_json(1)
    \/ EnphaseTransform(1)
    \/ Return(1)

SpecRatio == Init /\ [][NextRatio]_vars

\* The status the ratio rule gives d devices reporting out of e > 0 expected,
\* in integer arithmetic.
RatioStatus(d, e) ==
    CASE IsNone(d) -> offline
      [] ~IsNone(d) /\ 100 * d[2] >= 95 * e -> normal
      [] ~IsNone(d) /\ 100 * d[2] < 95 * e /\ 100 * d[2] >= 80 * e -> warning
      [] ~IsNone(d) /\ 100 * d[2] < 80 * e /\ d[2] > 0 -> critical
      [] OTHER -> offline

\* C8: with expected_devices > 0 and r = devices_reporting / expected_devices,
\* Enphase reports normal for r >= 0.95, warning for 0.80 <= r < 0.95,
\* critical for r < 0.80 with devices_reporting > 0, offline for
\* devices_reporting = 0 or absent; r = 0.95 is normal and r = 0.80 warning.
RatioThresholds ==
    \A c \in Calls : (Returned(c) /\ transformer[c] = "EnphaseTransformer") =>
        /\ Len(records[c]) = 1
        /\ records[c][1]["error_type"] = PyStr(RatioStatus(Get(items[c][1], "devices_reporting"), opts[c].expected_devices[2]))

\* 16 of 20 devices (r = 0.80 exactly) has been reported as warning.
RatioThresholdsWitness ==
    \E c \in Calls :
        /\ Returned(c)
        /\ Get(items[c][1], "devices_reporting") = PyInt(16)
        /\ opts[c].expected_devices = PyInt(20)
        /\ records[c][1]["error_type"] = PyStr(warning)

---------------------------------------------------------------------------
(* The timestamp normalizer under an offset override (specification SpecTime) *)

\* Epoch seconds, strings in the three legacy formats, ISO-8601 strings and
\* strings in no format.
TimeValues == {
    PyInt(0), PyInt(86399), PyInt(951782400), PyInt(1739102400), PyInt(-1), PyFloat(3, 2), PyFloat(1739102400, 1),
    PyStr(<<"2", "0", "2", "6", "-", "0", "2", "-", "0", "9", " ", "1", "2", ":", "0", "0", ":", "0", "0">>), PyStr(<<"2", "0", "2", "6", "/", "0", "2", "/", "0", "9", " ", "1", "2", ":", "0", "0", ":", "0", "0">>), PyStr(<<"2", "0", "2", "6", "-", "0", "2", "-", "0", "8">>),
    PyStr(<<"2", "0", "2", "6", "-", "2", "-", "9", " ", "1", ":", "2", ":", "3">>), PyStr(<<"2", "0", "2", "4", "/", "0", "2", "/", "2", "9", " ", "2", "3", ":", "5", "9", ":", "5", "9">>), PyStr(<<" ", "2", "0", "2", "6", "-", "0", "2", "-", "0", "9", " ", "1", "2", ":", "0", "0", ":", "0", "0", " ">>), PyStr(<<"2", "0", "2", "3", "-", "0", "2", "-", "2", "9">>),
    PyStr(<<"2", "0", "2", "6", "-", "0", "2", "-", "0", "9", "T", "1", "2", ":", "0", "0", ":", "0", "0", "Z">>), PyStr(<<"2", "0", "2", "6", "-", "0", "2", "-", "0", "9", "T", "1", "2", ":", "0", "0", ":", "0", "0", "+", "0", "5", ":", "3", "0">>), PyStr(<<"2", "0", "2", "6", "-", "0", "2", "-", "0", "9", "T", "1", "2", ":", "0", "0", ":", "0", "0">>),
    PyStr(<<"g", "a", "r", "b", "a", "g", "e">>), PyStr(<<"2", "0", "2", "6", "/", "0", "2", "/", "0", "9">>) }

Overrides == {PyNone, PyStr(<<"+", "0", "2", ":", "0", "0">>), PyStr(<<"-", "0", "5", ":", "3", "0">>), PyStr(<<"+", "0", "0", ":", "0", "0">>), PyStr(<<"0", "2", "0", "0">>), PyStr(<<"+", "2", ":", "0", "0">>), Blank}

\* transform(data, "fimer", timezone=tz) is called on one point whose
\* timestamp is v.
transformTime(c) ==
    \E v \in TimeValues, tz \in Overrides :
        Begin(c, <<"f", "i", "m", "e", "r">>, JsonText(PyDict([points |-> PyList(<<FimerPointEntry(v, PyInt(1000))>>)])), [NoOptions EXCEPT !.timezone = tz])

NextTime ==
    \/ transformTime(1)
    \/ _get_transformer(1)
    \/ _parse_json(1)
    \/ FimerTransform(1)
    \/ Return(1)

SpecTime == Init /\ [][NextTime]_vars

\* A str that strptime reads in one of the formats "%Y-%m-%d %H:%M:%S",
\* "%Y/%m/%d %H:%M:%S", "%Y-%m-%d".
IsLegacyTime(v) ==
    /\ IsStr(v)
    /\ \/ StrpTime(Strip(v[2]), "-", TRUE) # NoDateTime
       \/ StrpTime(Strip(v[2]), "/", TRUE) # NoDateTime
       \/ StrpTime(Strip(v[2]), "-", FALSE) # NoDateTime

\* The input timestamp and the output text of record k of call c.
TimeIn(c, k) == Get(items[c][origin[c][k]], "timestamp")

TimeOut(c, k) == records[c][k]["timestamp"][2]

\* C9 as stated: for every valid epoch number and every string in one of the
\* three legacy formats the output ends in "Z" when no well-formed +/-HH:MM
\* override is supplied, and in exactly the override when one is.
OverrideAlwaysApplied ==
    \A c \in Calls : \A k \in 1..Len(records[c]) :
        (IsNumber(TimeIn(c, k)) \/ IsLegacyTime(TimeIn(c, k))) =>
            IF _is_offset_tz(opts[c].timezone)
            THEN EndsWith(TimeOut(c, k), opts[c].timezone[2])
            ELSE EndsWith(TimeOut(c, k), <<"Z">>)

\* C9: for every valid epoch number the output ends in "Z" whatever the
\* override; for every string in one of the three legacy formats it ends in
\* "Z" when no well-formed +/-HH:MM override is supplied and in exactly the
\* override when one is.
OverrideAppliedToText ==
    \A c \in Calls : \A k \in 1..Len(records[c]) :
        /\ IsNumber(TimeIn(c, k)) => EndsWith(TimeOut(c, k), <<"Z">>)
        /\ IsLegacyTime(TimeIn(c, k)) =>
               IF _is_offset_tz(opts[c].timezone)
               THEN EndsWith(TimeOut(c, k), opts[c].timezone[2])
               ELSE EndsWith(TimeOut(c, k), <<"Z">>)

\* A date-only string has been normalized under the override -05:30, and so
\* ends in it.
OverrideAppliedToTextWitness ==
    \E c \in Calls :
        /\ Returned(c)
        /\ Len(records[c]) = 1
        /\ TimeIn(c, 1) = PyStr(<<"2", "0", "2", "6", "-", "0", "2", "-", "0", "8">>)
        /\ opts[c].timezone = PyStr(<<"-", "0", "5", ":", "3", "0">>)
        /\ TimeOut(c, 1) = <<"2", "0", "2", "6", "-", "0", "2", "-", "0", "8", "T", "0", "0", ":", "0", "0", ":", "0", "0", "-", "0", "5", ":", "3", "0">>

---------------------------------------------------------------------------
(* A call of transform followed by a second call on the same data and      *)
(* options (specification SpecPair)                                        *)

Finished(c) == pc[c] \in {"done", "error"}

\* The registered class of a source identifier, "" when it has none.
ClassOf(src) == Lookup(transformers, Lower(src), "")

\* The most rows or entries of an input of the pair of calls.
MaxPairRows == 2

\* The sequences of at most MaxPairRows of the first two rows of a vendor.
PairLists(rows) == SeqsUpTo({rows[1], rows[2]}, MaxPairRows)

\* The input texts the pair of calls is tried on.
PairDataFor(cls) ==
    CASE cls = "HuaweiTransformer" -> {CsvText(s) : s \in PairLists(HuaweiRows)} \cup {OtherText}
      [] cls = "EnphaseTransformer" -> {JsonText(PyList(s)) : s \in PairLists(EnphaseEntries)} \cup {JsonText(PyInt(3)), OtherText}
      [] cls = "SolarmanTransformer" -> {CsvText(s) : s \in PairLists(SolarmanRows)} \cup {OtherText}
      [] cls = "SwitchTransformer" -> {CsvText(s) : s \in PairLists(SwitchRows)} \cup {OtherText}
      [] cls = "SolaxCloudTransformer" -> {JsonText(PyDict([code |-> PyInt(0), result |-> PyList(s)])) : s \in PairLists(SolaxEntries)} \cup {JsonText(PyList(<<SolaxEntries[1]>>)), OtherText}
      [] cls = "FimerTransformer" -> {JsonText(PyDict([series |-> PyList(s)])) : s \in PairLists(FimerSeriesEntries)} \cup {JsonText(p) : p \in FimerSnapshots} \cup {OtherText}
      [] cls = "SolarEdgeTransformer" -> {JsonText(PyDict([data |-> PyDict([telemetries |-> PyList(s)])])) : s \in PairLists(SolarEdgeTelemetries)} \cup {JsonText(PyDict([data |-> PyNone])), OtherText}
      [] cls = "FroniusTransformer" -> {JsonText(FroniusPayload(IsoTime, PyNone, FroniusSite(PyInt(4200), PyInt(13500)))), JsonText(EmptyDict), OtherText}
      [] cls = "SMATransformer" -> {JsonText(PyList(s)) : s \in PairLists(SMAEntries)} \cup {OtherText}
      [] cls = "SolisTransformer" -> {JsonText(PyList(s)) : s \in PairLists(SolisEntries)} \cup {OtherText}
      [] OTHER -> {CsvText(<<>>), OtherText}

\* transform(data, source, asset_id, timezone) is called first.
transformFirst(c) ==
    \E src \in Sources, o \in {NoOptions, FullOptions} :
        \E d \in PairDataFor(ClassOf(src)) : Begin(c, src, d, o)

\* Once call 1 has finished, transform is called again on its data and
\* options, under any identifier of the same transformer class.
transformAgain(c) ==
    /\ Finished(1)
    /\ \E src \in Sources :
        /\ ClassOf(src) = ClassOf(source[1])
        /\ Begin(c, src, data[1], opts[1])

\* Once call 1 has finished, transform_stream is called on its arguments.
transform_stream(c) ==
    /\ Finished(1)
    /\ StreamBegin(c, source[1], data[1], opts[1])

NextPair ==
    \/ transformFirst(1)
    \/ Run(1)
    \/ transformAgain(2)
    \/ transform_stream(2)
    \/ Run(2)
    \/ RunStream(2)

SpecPair == Init /\ [][NextPair]_vars

\* C11: transform_stream with an unknown source identifier reports the
\* unknown-source error when transform_stream is called: no call with an
\* unregistered identifier gets a stream back to consume.
StreamErrorAtDispatch ==
    \A c \in Calls : (api[c] = "transform_stream" /\ pc[c] = "created") => HasKey(transformers, Lower(source[c]))

\* The synonym pairs of the registry.
Synonyms == {{<<"s", "o", "l", "a", "x">>, <<"s", "o", "l", "a", "x", "c", "l", "o", "u", "d">>}, {<<"f", "i", "m", "e", "r">>, <<"a", "u", "r", "o", "r", "a", "v", "i", "s", "i", "o", "n">>}, {<<"s", "o", "l", "i", "s">>, <<"s", "o", "l", "i", "s", "c", "l", "o", "u", "d">>}}

\* b is an upper/lower-case variant or a synonym of the registered key a.
SameIdentifier(a, b) == Lower(a) = Lower(b) \/ {Lower(a), Lower(b)} \in Synonyms

\* C12: registry lookup depends only on the lower-cased identifier: for every
\* registered key, every upper/lower-case variant of it and every synonym
\* of it, transform on the same data and options ends the same way, with the
\* same records.
RegistryCaseInsensitive ==
    (/\ api[2] = "transform" /\ Finished(1) /\ Finished(2)
     /\ data[2] = data[1] /\ opts[2] = opts[1]
     /\ HasKey(transformers, Lower(source[1]))
     /\ SameIdentifier(source[1], source[2])) =>
        /\ pc[2] = pc[1]
        /\ records[2] = records[1]
        /\ error[2] = error[1]

\* transform under "HuaWei" and then under "huawei" has returned the same two
\* records.
RegistryCaseInsensitiveWitness ==
    /\ source[1] = <<"H", "u", "a", "W", "e", "i">> /\ source[2] = <<"h", "u", "a", "w", "e", "i">>
    /\ api[2] = "transform"
    /\ Returned(1) /\ Returned(2)
    /\ Len(records[1]) = 2
    /\ records[2] = records[1]

\* s is a prefix of t.
IsPrefix(s, t) == Len(s) <= Len(t) /\ s = SubSeq(t, 1, Len(s))

\* The positions are increasing: input order, at most one record per entry.
Increasing(positions) == \A i, j \in 1..Len(positions) : i < j => positions[i] < positions[j]

\* C13: for every vendor, input and option set, the records transform_stream
\* yields are those transform returns on the same arguments, in the same
\* order (and the stream fails where transform fails); that order is the
\* order of the input rows or entries, at most one record per row or entry.
StreamEqualsTransform ==
    /\ (api[2] = "transform_stream" /\ Finished(1) /\ pc[2] = "yield") => IsPrefix(yielded[2], records[1])
    /\ (api[2] = "transform_stream" /\ Finished(1) /\ Finished(2)) =>
        /\ pc[2] = pc[1]
        /\ error[2] = error[1]
        /\ Returned(2) => yielded[2] = records[1]
    /\ \A c \in Calls :
        /\ Increasing(origin[c])
        /\ Len(origin[c]) = Len(records[c])
        /\ \A k \in 1..Len(origin[c]) : origin[c][k] \in 1..Len(items[c])

\* A stream has yielded, in order, the two different records transform
\* returned.
StreamEqualsTransformWitness ==
    /\ api[2] = "transform_stream"
    /\ Returned(1) /\ Returned(2)
    /\ Len(records[1]) = 2
    /\ records[1][1] # records[1][2]
    /\ yielded[2] = records[1]

---------------------------------------------------------------------------
(* The fields of the emitted records *)

\* C14: no emitted record, of any vendor and input, has a field whose value
\* is None: every optional field is omitted or carries a value.
NoNullField ==
    \A c \in Calls : \A k \in 1..Len(records[c]) :
        \A field \in DOMAIN records[c][k] : ~IsNone(records[c][k][field])

\* A SolarEdge telemetry with no power, mode, operation mode or L1 data has
\* been emitted, under no asset id, as the three required fields alone.
NoNullFieldWitness ==
    \E c \in Calls :
        /\ Returned(c)
        /\ transformer[c] = "SolarEdgeTransformer"
        /\ opts[c] = NoOptions
        /\ Len(records[c]) = 1
        /\ IsNone(Get(items[c][origin[c][1]], "totalActivePower"))
        /\ IsNone(Get(items[c][origin[c][1]], "operationMode"))
        /\ DOMAIN records[c][1] = {"timestamp", "kWh", "error_type"}

\* The native status code or message the input carries for an entry of a
\* cls transformer on extraction path path; None when it carries none.
NativeCode(cls, path, entry) ==
    LET Normalized(r) == IF IsDict(Get(r, "normalized")) THEN Get(r, "normalized") ELSE r
        FroniusCode(head, data_block) ==
            CASE FroniusShape(data_block) = "site" -> IF IsDict(Get(head, "Status")) THEN Get(Get(head, "Status"), "Code") ELSE PyNone
              [] FroniusShape(data_block) = "inverter" -> _deep_get(data_block, <<"DeviceStatus", "ErrorCode">>)
              [] OTHER -> PyNone
    IN  CASE cls = "HuaweiTransformer" -> _first_value(entry, <<"inverter_state", "Inverter State", "State", "status">>)
          [] cls = "SolarmanTransformer" -> _first_value(entry, <<"device_state", "Device State", "Status", "State">>)
          [] cls = "SolaxCloudTransformer" -> Get(entry, "inverterStatus")
          [] cls = "FimerTransformer" /\ path = "snapshot" -> PyOr(Get(entry, "message"), Get(entry, "status"))
          [] cls = "SolarEdgeTransformer" /\ path = "telemetries" -> Get(entry, "operationMode")
          [] cls = "FroniusTransformer" -> FroniusCode(DictAt(entry, "Head"), DictAt(DictAt(entry, "Body"), "Data"))
          [] cls = "SMATransformer" -> PyOr(Get(Normalized(entry), "event_code"), Get(Normalized(entry), "status_code"))
          [] cls = "SolisTransformer" -> PyOr(Get(Normalized(entry), "status_code"), Get(Normalized(entry), "inverter_status"))
          [] OTHER -> PyNone

\* C15: for every vendor, an emitted record contains error_code only if a
\* native status code or message was resolved from the input for that
\* record; when the input carries none, error_code is omitted.
ErrorCodeOnlyNative ==
    \A c \in Calls : \A k \in 1..Len(records[c]) :
        "error_code" \in DOMAIN records[c][k] =>
            /\ ~IsNone(NativeCode(transformer[c], shape[c], items[c][origin[c][k]]))
            /\ NativeCode(transformer[c], shape[c], items[c][origin[c][k]]) # Blank

---------------------------------------------------------------------------
(* Rows and entries whose timestamp is absent or unparsable                *)
(* (specification SpecEdge)                                                *)

\* The most rows or entries of an input with bad timestamps.
MaxEdgeRows == 2

\* The shapes of input: one per CSV vendor and per JSON container.
CsvKinds == {"huawei", "solarman", "switch"}

ListKinds == CsvKinds \cup {"enphase", "solax", "series", "points", "telemetries", "energy", "sma", "solis"}

SingleKinds == {"snapshot", "fronius"}

\* Timestamps that are absent or that no format reads: in CSV text, in JSON.
BadTextTimes == {Blank, BadTime}

BadJsonTimes == {PyNone, Blank, BadTime, PyNaN, PyInf}

BadTimesOf(kind) == IF kind \in CsvKinds THEN BadTextTimes ELSE BadJsonTimes

\* A timestamp every vendor reads.
GoodTimeOf(kind) == IF kind = "enphase" THEN PyInt(1739102400) ELSE GoodTime

\* Entry number n (1 or 2) of a kind, otherwise well-formed, with timestamp t.
EdgeEntry(kind, t, n) ==
    CASE kind = "huawei" -> HuaweiCsvRow(t, IF n = 1 THEN <<"1", "0">> ELSE <<"2", "0">>, <<"5", "1", "2">>, <<"1">>)
      [] kind = "solarman" -> SolarmanCsvRow(t, IF n = 1 THEN <<"1", "0", "0">> ELSE <<"1", "0", "6">>, <<"O", "p", "e", "r", "a", "t", "i", "n", "g">>, <<"5", "0", "0">>)
      [] kind = "switch" -> SwitchCsvRow(t, IF n = 1 THEN <<"3">> ELSE <<"6">>, <<>>, IF n = 1 THEN <<"4">> ELSE <<"8">>, <<>>)
      [] kind = "enphase" -> EnphaseItem(t, PyInt(3500 * n), PyInt(9))
      [] kind = "solax" -> SolaxEntry(t, PyInt(4200), PyInt(18 * n), PyStr(<<"1", "0", "2">>))
      [] kind = "series" -> FimerSeriesEntry(t, PyInt(15000 * n), PyStr(<<"W", "h">>))
      [] kind = "points" -> FimerPointEntry(t, PyInt(1000 * n))
      [] kind = "telemetries" -> SolarEdgeTelemetry(t, PyInt(5000 * n), PyStr(<<"M", "P", "P", "T">>), PyInt(1), PyNone)
      [] kind = "energy" -> SolarEdgeValue(t, PyInt(1500 * n))
      [] kind = "sma" -> NormalizedEntry(t, PyInt(3000 * n), PyInt(2500), PyNone, PyStr(<<"O", "N", "L", "I", "N", "E">>), <<>>)
      [] kind = "solis" -> NormalizedEntry(t, PyInt(4600 * n), PyNone, PyNone, PyStr(<<"r", "u", "n", "n", "i", "n", "g">>), <<>>)
      [] kind = "snapshot" -> PyDict([lastReportedTimestamp |-> t, status |-> PyStr(<<"o", "k">>)])
      [] kind = "fronius" -> FroniusPayload(t, PyNone, FroniusSite(PyInt(4200), PyInt(13500)))

EdgeSource(kind) ==
    CASE kind \in {"series", "points", "snapshot"} -> <<"f", "i", "m", "e", "r">>
      [] kind \in {"telemetries", "energy"} -> <<"s", "o", "l", "a", "r", "e", "d", "g", "e">>
      [] kind = "huawei" -> <<"h", "u", "a", "w", "e", "i">>
      [] kind = "solarman" -> <<"s", "o", "l", "a", "r", "m", "a", "n">>
      [] kind = "switch" -> <<"s", "w", "i", "t", "c", "h">>
      [] kind = "enphase" -> <<"e", "n", "p", "h", "a", "s", "e">>
      [] kind = "solax" -> <<"s", "o", "l", "a", "x">>
      [] kind = "sma" -> <<"s", "m", "a">>
      [] kind = "solis" -> <<"s", "o", "l", "i", "s">>
      [] kind = "fronius" -> <<"f", "r", "o", "n", "i", "u", "s">>

\* The input text that carries the entries, in the container of the kind.
EdgeData(kind, entries) ==
    CASE kind \in CsvKinds -> CsvText(entries)
      [] kind \in {"enphase", "sma", "solis"} -> JsonText(PyList(entries))
      [] kind = "solax" -> JsonText(PyDict([code |-> PyInt(0), result |-> PyList(entries)]))
      [] kind = "series" -> JsonText(PyDict([series |-> PyList(entries)]))
      [] kind = "points" -> JsonText(PyDict([points |-> PyList(entries)]))
      [] kind = "telemetries" -> JsonText(PyDict([data |-> PyDict([telemetries |-> PyList(entries)])]))
      [] kind = "energy" -> JsonText(PyDict([energy |-> PyDict([values |-> PyList(entries)])]))
      [] kind \in SingleKinds -> JsonText(entries[1])

EdgeEntries(kind) ==
    {EdgeEntry(kind, GoodTimeOf(kind), n) : n \in {1, 2}} \cup {EdgeEntry(kind, t, 1) : t \in BadTimesOf(kind)}

EdgeInputs(kind) ==
    IF kind \in ListKinds THEN SeqsUpTo(EdgeEntries(kind), MaxEdgeRows)
    ELSE {<<e>> : e \in EdgeEntries(kind)}

\* transform is called on rows or entries some of which have a bad timestamp.
transformEdge(c) ==
    \E kind \in ListKinds \cup SingleKinds :
        \E entries \in EdgeInputs(kind) : Begin(c, EdgeSource(kind), EdgeData(kind, entries), NoOptions)

\* The timestamp an entry carries, as the transformer of class cls on
\* extraction path path looks it up.
RawTimestamp(cls, path, entry) ==
    LET Normalized(r) == IF IsDict(Get(r, "normalized")) THEN Get(r, "normalized") ELSE r
    IN  CASE cls = "HuaweiTransformer" -> _first_value(entry, <<"timestamp", "Time", "Timestamp", "time">>)
          [] cls = "SolarmanTransformer" -> _first_value(entry, <<"update_time", "Update Time", "Time", "Timestamp">>)
          [] cls = "SwitchTransformer" -> _first_value(entry, <<"timestampISO", "timestamp", "Time", "Date/Time">>)
          [] cls = "EnphaseTransformer" -> Get(entry, "end_at")
          [] cls = "SolaxCloudTransformer" -> PyOr(Get(entry, "uploadTime"), Get(entry, "timestamp"))
          [] cls = "FimerTransformer" /\ path = "series" -> Get(entry, "date")
          [] cls = "FimerTransformer" /\ path = "points" -> Get(entry, "timestamp")
          [] cls = "FimerTransformer" /\ path \notin {"series", "points"} -> PyOr(Get(entry, "lastReportedTimestamp"), Get(entry, "timestamp"))
          [] cls = "SolarEdgeTransformer" -> Get(entry, "date")
          [] cls = "FroniusTransformer" -> Get(DictAt(entry, "Head"), "Timestamp")
          [] cls \in {"SMATransformer", "SolisTransformer"} -> Get(Normalized(entry), "timestamp")

\* The entries of call c whose timestamp is neither absent nor unparsable.
GoodEntries(c) ==
    LET IsGood(entry) == RawTimestamp(transformer[c], shape[c], entry) \notin BadJsonTimes
    IN  SelectSeq(items[c], IsGood)

\* Once call 1 has finished, transform is called on its input without the
\* rows or entries whose timestamp is bad.
transformWithout(c) ==
    /\ Finished(1)
    /\ \E kind \in ListKinds :
        \E entries \in EdgeInputs(kind) :
            /\ source[1] = EdgeSource(kind)
            /\ data[1] = EdgeData(kind, entries)
            /\ Begin(c, source[1], EdgeData(kind, GoodEntries(1)), opts[1])

NextEdge ==
    \/ transformEdge(1)
    \/ Run(1)
    \/ transformWithout(2)
    \/ Run(2)

SpecEdge == Init /\ [][NextEdge]_vars

\* C16: for every vendor, a row or entry whose timestamp is absent or
\* unparsable produces no record and no error, the records of the other rows
\* are those produced when that row is removed from the input, and a call
\* in which every row is such a row returns an empty sequence.
BadTimestampSkipped ==
    /\ \A c \in Calls : pc[c] # "error"
    /\ \A c \in Calls : \A k \in 1..Len(records[c]) :
           RawTimestamp(transformer[c], shape[c], items[c][origin[c][k]]) \notin BadJsonTimes
    /\ \A c \in Calls : (Returned(c) /\ GoodEntries(c) = <<>>) => records[c] = <<>>
    /\ (Finished(1) /\ Finished(2) /\ source[2] = source[1] /\ opts[2] = opts[1] /\ items[2] = GoodEntries(1)) =>
           records[2] = records[1]

---------------------------------------------------------------------------
(* Numeric coercion of the fields of an Enphase interval                   *)
(* (specification SpecCoerce)                                              *)

\* Values of a JSON field: null, blank and padded text, text that is no
\* number, numbers and numeric text, infinities and NaN, nested values.
CoerceValues == {
    PyNone, Blank, PyStr(<<" ">>), PyStr(<<"a", "b", "c">>), PyStr(<<"1", "2">>), PyStr(<<" ", "3", ".", "5", " ">>), PyStr(<<"-", "7">>), PyStr(<<"1", ".">>),
    PyStr(<<"i", "n", "f">>), PyStr(<<"-", "i", "n", "f">>), PyStr(<<"n", "a", "n">>), PyStr(<<"I", "n", "f", "i", "n", "i", "t", "y">>),
    PyInt(0), PyInt(5), PyInt(-3), PyFloat(7, 2), PyFloat(-7, 2), PyInf, PyNegInf, PyNaN,
    EmptyDict, PyList(<<>>) }

\* transform(data, "enphase") is called on one interval whose wh_del (read by
\* _to_float) and devices_reporting (read by _to_int) are any values.
transformCoerce(c) ==
    \E w \in CoerceValues, v \in CoerceValues :
        Begin(c, <<"e", "n", "p", "h", "a", "s", "e">>, JsonText(PyList(<<EnphaseItem(PyInt(1739102400), w, v)>>)), NoOptions)

NextCoerce ==
    \/ transformCoerce(1)
    \/ _get_transformer(1)
    \/ _parse_json(1)
    \/ EnphaseTransform(1)
    \/ Return(1)

SpecCoerce == Init /\ [][NextCoerce]_vars

\* C17: numeric coercion never raises: for every value both _to_float and
\* _to_int return a number or None, _to_int returns None exactly when
\* _to_float does, and no call fails on a field it coerces.
CoercionNeverRaises ==
    \A c \in Calls : (transformer[c] = "EnphaseTransformer" /\ pc[c] \in {"loop", "done", "error"}) =>
        /\ pc[c] # "error"
        /\ \A i \in 1..Len(items[c]) : \A field \in {"wh_del", "devices_reporting"} :
               /\ ~IsRaise(_to_float(Get(items[c][i], field)))
               /\ ~IsRaise(_to_int(Get(items[c][i], field)))
               /\ IsNone(_to_int(Get(items[c][i], field))) <=> IsNone(_to_float(Get(items[c][i], field)))

---------------------------------------------------------------------------
(* Enphase intervals whose end_at is no finite epoch                       *)
(* (specification SpecEpoch)                                               *)

\* The most intervals of an input with non-finite epochs.
MaxEpochRows == 2

\* Values of end_at: epochs in range, the infinities and NaN as JSON numbers
\* and as the numeric text _to_float reads.
EpochValues == {
    PyInt(1739102400), PyInt(1739103300), PyInf, PyNegInf, PyNaN,
    PyStr(<<"i", "n", "f">>), PyStr(<<"-", "i", "n", "f">>), PyStr(<<"n", "a", "n">>), PyStr(<<"I", "n", "f", "i", "n", "i", "t", "y">>) }

EpochEntries == {EnphaseItem(t, PyInt(3500), PyInt(9)) : t \in EpochValues}

\* transform(data, "enphase") is called on intervals with any of the epochs.
transformEpoch(c) ==
    \E entries \in SeqsUpTo(EpochEntries, MaxEpochRows) :
        Begin(c, <<"e", "n", "p", "h", "a", "s", "e">>, JsonText(PyList(entries)), NoOptions)

NextEpoch ==
    \/ transformEpoch(1)
    \/ _get_transformer(1)
    \/ _parse_json(1)
    \/ EnphaseTransform(1)
    \/ Return(1)

SpecEpoch == Init /\ [][NextEpoch]_vars

\* The end_at of an interval is a finite number.
FiniteEpoch(entry) ==
    LET Finite(end_at) == ~IsNone(end_at) /\ end_at[3] # 0
    IN  Finite(_to_float(Get(entry, "end_at")))

\* C18: a non-finite epoch (infinity, NaN) is normalized to None and never
\* to an error: the Enphase interval carrying it is skipped and the call
\* returns the records of the other intervals.
NonFiniteEpochSkipped ==
    \A c \in Calls : transformer[c] = "EnphaseTransformer" =>
        /\ pc[c] # "error"
        /\ \A i \in 1..Len(items[c]) : ~IsRaise(_to_iso8601(_to_float(Get(items[c][i], "end_at")), PyNone))
        /\ \A k \in 1..Len(records[c]) : FiniteEpoch(items[c][origin[c][k]])
        /\ Returned(c) => Len(records[c]) = Cardinality({i \in 1..Len(items[c]) : FiniteEpoch(items[c][i])})

---------------------------------------------------------------------------
(* Malformed input of the JSON vendors (specification Spec)                *)

\* p[outer][inner] is a list.
HasList(p, outer, inner) == IsDict(p) /\ IsDict(Get(p, outer)) /\ IsList(Get(Get(p, outer), inner))

\* The parsed payload p has none of the containers a cls transformer reads
\* its entries from.
LacksContainer(cls, p) ==
    CASE cls = "SolarEdgeTransformer" -> ~HasList(p, "data", "telemetries") /\ ~HasList(p, "energy", "values") /\ ~HasList(p, "power", "values")
      [] cls \in {"FroniusTransformer", "FimerTransformer"} -> ~IsDict(p)
      [] OTHER -> ~IsDict(p) /\ ~IsList(p)

\* C19: for every vendor that consumes JSON, text that cannot be parsed or a
\* payload without the vendor's container makes the call fail with an
\* error; the call does not return a record sequence, empty or not.
MalformedInputFails ==
    \A c \in Calls : (parsed[c] /\ transformer[c] # "" /\ transformer[c] \notin CsvTransformers) =>
        ((data[c][1] # "json" \/ LacksContainer(transformer[c], data[c][2])) => (pc[c] = "error" /\ records[c] = <<>>))

---------------------------------------------------------------------------
(* Primary and secondary channels of a Switch row (specification           *)
(* SpecSwitch)                                                             *)

\* The text of a power cell and of a reactive cell: blank, no number, zero
\* and two readings (every power reading forms an exact apparent power with
\* every reactive reading).
PowerTexts == {<<>>, <<"a", "b", "c">>, <<"0">>, <<"1", "5">>, <<"4", "8">>}

ReactiveTexts == {<<>>, <<"a", "b", "c">>, <<"0">>, <<"2", "0">>, <<"3", "6">>}

\* transform(data, "switch") is called on one row with any four cells.
transformSwitch(c) ==
    \E p1 \in PowerTexts, p2 \in PowerTexts, q1 \in ReactiveTexts, q2 \in ReactiveTexts :
        Begin(c, <<"s", "w", "i", "t", "c", "h">>, CsvText(<<SwitchCsvRow(GoodTime, p1, p2, q1, q2)>>), NoOptions)

NextSwitch ==
    \/ transformSwitch(1)
    \/ _get_transformer(1)
    \/ _parse_csv_rows(1)
    \/ SwitchTransform(1)
    \/ Return(1)

SpecSwitch == Init /\ [][NextSwitch]_vars

\* The record of a Switch row agrees with the reading used on each channel
\* (None: no reading): kWh and error_code with power, kVArh with reactive.
RecordUses(rec, power, reactive, interval_hours) ==
    /\ rec["kWh"] = (IF IsNone(power) THEN FZero ELSE FMax(FMul(Milli(power), interval_hours), FZero))
    /\ rec["error_code"] = PyStr(IF IsNone(power) THEN unknown ELSE IF power = FZero THEN <<"0">> ELSE <<"1">>)
    /\ "kVArh" \in DOMAIN rec <=> ~IsNone(reactive)
    /\ ~IsNone(reactive) => rec["kVArh"] = FMul(Milli(reactive), interval_hours)

\* C20: on the real-power channel (dP1/dP2) and on the reactive channel
\* (dQ1/dQ2) a Switch record uses the primary whenever the primary is
\* present and the secondary only when the primary is absent; a primary of
\* 0 is used as 0 and the two are never summed or averaged.
PrimaryPreferred ==
    \A c \in Calls : transformer[c] = "SwitchTransformer" =>
        \A k \in 1..Len(records[c]) :
            LET Agrees(rec, d_p1, d_p2, d_q1, d_q2) ==
                    RecordUses(rec, IF ~IsNone(d_p1) THEN d_p1 ELSE d_p2, IF ~IsNone(d_q1) THEN d_q1 ELSE d_q2, IntervalHours(opts[c], 15))
                Of(rec, row) == Agrees(rec, _to_float(Get(row, "dP1")), _to_float(Get(row, "dP2")), _to_float(Get(row, "dQ1")), _to_float(Get(row, "dQ2")))
            IN  Of(records[c][k], items[c][origin[c][k]])

\* A call has returned the record of a row whose primary power and primary
\* reactive readings are 0 and whose secondary readings are not: the record
\* has kWh 0, error_code "0" and kVArh 0.
PrimaryPreferredWitness ==
    \E c \in Calls :
        /\ Returned(c)
        /\ transformer[c] = "SwitchTransformer"
        /\ items[c] = <<SwitchCsvRow(GoodTime, <<"0">>, <<"4", "8">>, <<"0">>, <<"3", "6">>)>>
        /\ Len(records[c]) = 1
        /\ records[c][1]["kWh"] = FZero
        /\ records[c][1]["error_code"] = PyStr(<<"0">>)
        /\ records[c][1]["kVArh"] = FZero

---------------------------------------------------------------------------
(* Status inferred from the sign of the power (specification SpecSign)     *)

\* The text of a power cell: blank, zero, positive, negative.
SignPowerTexts == {<<>>, <<"0">>, <<"1", "0", "0", "0">>, <<"-", "5", "0", "0">>}

\* The text of a Solarman device-state cell: blank, in the table, in the
\* table once title-cased, in the table once stripped, in no table.
SignStateTexts == {<<>>, <<"F", "a", "u", "l", "t">>, <<"f", "a", "u", "l", "t">>, <<" ", "S", "t", "a", "n", "d", "b", "y", " ">>, <<"B", "o", "g", "u", "s">>, <<"0">>}

SwitchSignRow(p1, p2) == SwitchCsvRow(GoodTime, p1, p2, <<>>, <<>>)

\* transform(data, "switch") is called on one row with any primary and
\* secondary power, or on the three rows with primary power 1000, 0, -500.
transformSwitchSign(c) ==
    \/ \E p1 \in SignPowerTexts, p2 \in SignPowerTexts :
           Begin(c, <<"s", "w", "i", "t", "c", "h">>, CsvText(<<SwitchSignRow(p1, p2)>>), NoOptions)
    \/ Begin(c, <<"s", "w", "i", "t", "c", "h">>, CsvText(<<SwitchSignRow(<<"1", "0", "0", "0">>, <<>>), SwitchSignRow(<<"0">>, <<>>), SwitchSignRow(<<"-", "5", "0", "0">>, <<>>)>>), NoOptions)

\* transform(data, "solarman") is called on one row with any device state
\* and power.
transformSolarmanSign(c) ==
    \E state \in SignStateTexts, power \in SignPowerTexts :
        Begin(c, <<"s", "o", "l", "a", "r", "m", "a", "n">>, CsvText(<<SolarmanCsvRow(GoodTime, <<"1", "0", "0">>, state, power)>>), NoOptions)

NextSign ==
    \/ transformSwitchSign(1)
    \/ _get_transformer(1)
    \/ _parse_csv_rows(1)
    \/ SwitchTransform(1)
    \/ Return(1)
    \/ transformSolarmanSign(2)
    \/ _get_transformer(2)
    \/ _parse_csv_rows(2)
    \/ SolarmanTransform(2)
    \/ Return(2)

SpecSign == Init /\ [][NextSign]_vars

\* error_type is the class of the sign of power: normal above 0, zero_class
\* at 0, warning below 0, unknown when there is no power.
BySign(error_type, power, zero_class) ==
    /\ IsNone(power) => error_type = PyStr(unknown)
    /\ (~IsNone(power) /\ FLt(FZero, power)) => error_type = PyStr(normal)
    /\ (~IsNone(power) /\ power = FZero) => error_type = PyStr(zero_class)
    /\ (~IsNone(power) /\ FLt(power, FZero)) => error_type = PyStr(warning)

\* C21: Switch classifies every row by the sign of its selected real power
\* (standby at 0); Solarman classifies by the table when the device state,
\* stripped or title-cased, is in it, whatever the power, and otherwise by
\* the sign of the power (offline at 0).
PowerSignFallback ==
    /\ \A c \in Calls : transformer[c] = "SwitchTransformer" =>
           \A k \in 1..Len(records[c]) :
               LET Selected(d_p1, d_p2) == IF ~IsNone(d_p1) THEN d_p1 ELSE d_p2
                   Of(rec, row) == BySign(rec["error_type"], Selected(_to_float(Get(row, "dP1")), _to_float(Get(row, "dP2"))), standby)
               IN  Of(records[c][k], items[c][origin[c][k]])
    /\ \A c \in Calls : transformer[c] = "SolarmanTransformer" =>
           \A k \in 1..Len(records[c]) :
               LET Classified(rec, state_key, power) ==
                       CASE HasKey(SolarmanSTATE_MAPPING, state_key) -> rec["error_type"] = PyStr(Lookup(SolarmanSTATE_MAPPING, state_key, unknown))
                         [] ~HasKey(SolarmanSTATE_MAPPING, state_key) /\ HasKey(SolarmanSTATE_MAPPING, Title(state_key)) -> rec["error_type"] = PyStr(Lookup(SolarmanSTATE_MAPPING, Title(state_key), unknown))
                         [] OTHER -> BySign(rec["error_type"], power, offline)
                   Of(rec, row) == Classified(rec, Strip(Get(row, "Device State")[2]), _to_float(Get(row, "Power(W)")))
               IN  Of(records[c][k], items[c][origin[c][k]])

\* Switch has returned normal, standby, warning for primary powers 1000, 0,
\* -500, and Solarman has returned offline for a row whose device state is
\* in no table and whose power is 0.
PowerSignFallbackWitness ==
    /\ Returned(1)
    /\ Len(records[1]) = 3
    /\ <<records[1][1]["error_type"], records[1][2]["error_type"], records[1][3]["error_type"]>> = <<PyStr(normal), PyStr(standby), PyStr(warning)>>
    /\ Returned(2)
    /\ items[2] = <<SolarmanCsvRow(GoodTime, <<"1", "0", "0">>, <<"B", "o", "g", "u", "s">>, <<"0">>)>>
    /\ Len(records[2]) = 1
    /\ records[2][1]["error_type"] = PyStr(offline)

---------------------------------------------------------------------------
(* Huawei run state and inverter state (specification SpecHuawei)          *)

\* The text of an inverter_state cell: blank, no number, a code of each
\* class of the table, a code in no table.
HuaweiStateTexts == {<<>>, <<"a", "b", "c">>, <<"0">>, <<"5", "1", "2">>, <<"5", "1", "3">>, <<"7", "6", "8">>, <<"7", "6", "9">>, <<"9", "9", "9">>}

\* The text of a run_state cell: blank, no number, 0, a fraction that
\* truncates to 0, other numbers.
HuaweiRunTexts == {<<>>, <<"a", "b", "c">>, <<"0">>, <<"0", ".", "5">>, <<"1">>, <<"-", "1">>}

\* transform(data, "huawei") is called on one row with any inverter_state
\* and run_state.
transformHuawei(c) ==
    \E state \in HuaweiStateTexts, run \in HuaweiRunTexts, o \in {NoOptions, FullOptions} :
        Begin(c, <<"h", "u", "a", "w", "e", "i">>, CsvText(<<HuaweiCsvRow(GoodTime, <<"1", "0">>, state, run)>>), o)

NextHuawei ==
    \/ transformHuawei(1)
    \/ _get_transformer(1)
    \/ _parse_csv_rows(1)
    \/ HuaweiTransform(1)
    \/ Return(1)

SpecHuawei == Init /\ [][NextHuawei]_vars

\* The class the ERROR_CODES table gives an inverter state, unknown when the
\* state is absent or in no class.
HuaweiTableClass(inverter_state) ==
    IF ~IsNone(inverter_state) /\ (\E i \in 1..Len(HuaweiERROR_CODES) : inverter_state[2] \in HuaweiERROR_CODES[i][2])
    THEN HuaweiERROR_CODES[CHOOSE i \in 1..Len(HuaweiERROR_CODES) : inverter_state[2] \in HuaweiERROR_CODES[i][2]][1]
    ELSE unknown

\* C22: a Huawei record whose run_state coerces to 0 has error_type offline
\* whatever its inverter_state, and its error_code is still the
\* inverter_state as a string; when run_state is not 0 the error_type is the
\* table class of inverter_state, unknown when the code is absent or in no
\* class.
RunStateZeroOffline ==
    \A c \in Calls : transformer[c] = "HuaweiTransformer" =>
        \A k \in 1..Len(records[c]) :
            LET Agrees(rec, inverter_state, run_state) ==
                    /\ run_state = PyInt(0) => rec["error_type"] = PyStr(offline)
                    /\ run_state # PyInt(0) => rec["error_type"] = PyStr(HuaweiTableClass(inverter_state))
                    /\ ~IsNone(inverter_state) => rec["error_code"] = PyStr(PyStrOf(inverter_state))
                Of(rec, row) == Agrees(rec, _to_int(Get(row, "inverter_state")), _to_int(Get(row, "run_state")))
            IN  Of(records[c][k], items[c][origin[c][k]])

\* A call has returned the record of the row power 10, inverter_state 512,
\* run_state 0 at the default interval: offline, error_code "512", kWh 5/6.
RunStateZeroOfflineWitness ==
    \E c \in Calls :
        /\ Returned(c)
        /\ opts[c] = NoOptions
        /\ items[c] = <<HuaweiCsvRow(GoodTime, <<"1", "0">>, <<"5", "1", "2">>, <<"0">>)>>
        /\ Len(records[c]) = 1
        /\ records[c][1]["error_type"] = PyStr(offline)
        /\ records[c][1]["error_code"] = PyStr(<<"5", "1", "2">>)
        /\ records[c][1]["kWh"] = PyFloat(5, 6)

---------------------------------------------------------------------------
(* Fimer payloads carrying several shapes at once (specification           *)
(* SpecFimer)                                                              *)

\* The most entries of a series or points list.
MaxFimerRows == 2

\* A key the payload does not have.
Absent == <<"absent">>

\* The dict d with key set to v, unless v is Absent.
WithKey(key, v, d) == IF v = Absent THEN d ELSE (key :> v) @@ d

\* What a payload has under series and under points: nothing, null, or a
\* list of entries.
FimerSeriesValues ==
    {Absent, PyNone} \cup {PyList(s) : s \in SeqsUpTo({FimerSeriesEntry(GoodTime, PyInt(15000), PyStr(<<"W", "h">>)), FimerSeriesEntry(BadTime, PyInt(5), PyStr(<<"W", "h">>))}, MaxFimerRows)}

FimerPointsValues ==
    {Absent, PyNone} \cup {PyList(s) : s \in SeqsUpTo({FimerPointEntry(GoodTime, PyInt(1000)), FimerPointEntry(BadTime, PyInt(1))}, MaxFimerRows)}

\* transform(data, "fimer") is called on an object with any series, any
\* points and, or not, the fields of a status snapshot.
transformFimer(c) ==
    \E series \in FimerSeriesValues, points \in FimerPointsValues, timestamp \in {Absent, GoodTime} :
        Begin(c, <<"f", "i", "m", "e", "r">>,
              JsonText(PyDict(WithKey("series", series, WithKey("points", points, WithKey("timestamp", timestamp, [status |-> PyStr(<<"f", "a", "u", "l", "t">>)]))))),
              NoOptions)

NextFimer ==
    \/ transformFimer(1)
    \/ _get_transformer(1)
    \/ _parse_json(1)
    \/ FimerTransform(1)
    \/ Return(1)

SpecFimer == Init /\ [][NextFimer]_vars

\* The one path of an object payload: series, then points, then snapshot.
FimerPath(p) ==
    IF IsList(Get(p, "series")) THEN "series"
    ELSE IF IsList(Get(p, "points")) THEN "points"
    ELSE "snapshot"

\* The entries of a path of payload p.
FimerPathEntries(p, path) ==
    CASE path = "series" -> Get(p, "series")[2]
      [] path = "points" -> Get(p, "points")[2]
      [] OTHER -> <<p>>

\* C23: for every Fimer payload exactly one of the three extraction paths
\* runs in a call, chosen once with precedence series, points, snapshot:
\* every record of the output is the record of that path for an entry of
\* that path's container, in order, also when the payload carries several
\* shapes at once.
OnePathPerPayload ==
    \A c \in Calls : (transformer[c] = "FimerTransformer" /\ pc[c] \in {"loop", "done"}) =>
        LET Of(p, path) ==
                /\ shape[c] = path
                /\ items[c] = FimerPathEntries(p, path)
                /\ Increasing(origin[c])
                /\ \A k \in 1..Len(records[c]) : Emit(records[c][k]) = FimerRow(path, FimerPathEntries(p, path)[origin[c][k]], opts[c])
                /\ Returned(c) => \A i \in 1..Len(FimerPathEntries(p, path)) :
                       IsEmit(FimerRow(path, FimerPathEntries(p, path)[i], opts[c])) => \E k \in 1..Len(origin[c]) : origin[c][k] = i
        IN  Of(payload[c], FimerPath(payload[c]))

\* A call on a payload with a series list, a points list and snapshot
\* fields has returned the one record of the series entry and nothing else.
OnePathPerPayloadWitness ==
    \E c \in Calls :
        /\ Returned(c)
        /\ IsList(Get(payload[c], "series"))
        /\ Get(payload[c], "points") = PyList(<<FimerPointEntry(GoodTime, PyInt(1000))>>)
        /\ Get(payload[c], "timestamp") = GoodTime
        /\ Len(records[c]) = 1
        /\ records[c][1]["kWh"] = PyFloat(15, 1)
        /\ "error_code" \notin DOMAIN records[c][1]

---------------------------------------------------------------------------
(* SolaxCloud entries under a wrapper object (specification SpecSolax)     *)

SolaxPowers == {PyNone, PyInt(4200), PyInt(-100), PyStr(<<"4", "2", "0", "0">>)}

SolaxYields == {PyNone, PyFloat(92, 5), PyInt(0)}

\* inverterStatus: null, in the table as text and as a number, not in the
\* table.
SolaxStatuses == {PyNone, PyStr(<<"1", "0", "2">>), PyInt(102), PyStr(<<"1", "0", "4">>), PyStr(<<"9", "9", "9">>)}

\* The response code of the wrapper: none, null, success, an error.
SolaxCodes == {Absent, PyNone, PyInt(0), PyInt(1001)}

\* transform(data, "solaxcloud") is called on a wrapper object whose result
\* is one entry, as a list or as an object.
transformSolax(c) ==
    \E ts \in {GoodTime, BadTime}, acpower \in SolaxPowers, yieldtoday \in SolaxYields, status \in SolaxStatuses, code \in SolaxCodes, o \in {NoOptions, FullOptions} :
        \/ Begin(c, <<"s", "o", "l", "a", "x", "c", "l", "o", "u", "d">>, JsonText(PyDict(WithKey("code", code, [result |-> PyList(<<SolaxEntry(ts, acpower, yieldtoday, status)>>)]))), o)
        \/ Begin(c, <<"s", "o", "l", "a", "x", "c", "l", "o", "u", "d">>, JsonText(PyDict(WithKey("code", code, [result |-> SolaxEntry(ts, acpower, yieldtoday, status)]))), o)

NextSolax ==
    \/ transformSolax(1)
    \/ _get_transformer(1)
    \/ _parse_json(1)
    \/ SolaxCloudTransform(1)
    \/ Return(1)

SpecSolax == Init /\ [][NextSolax]_vars

\* C24: for each SolaxCloud entry with a parsable timestamp, kWh is the
\* reported yieldtoday when there is one and otherwise
\* max(acpower/1000 * interval_minutes/60, 0); error_type is the table class
\* of inverterStatus, unknown when it is missing or not in the table;
\* error_code is the status as a string; oem_error_code is the wrapper's
\* response code as a string when the wrapper has one.
SolaxRecordFields ==
    \A c \in Calls : transformer[c] = "SolaxCloudTransformer" =>
        /\ \A i \in 1..Len(items[c]) :
               Get(items[c][i], "uploadTime") = GoodTime => (pc[c] = "done" => \E k \in 1..Len(origin[c]) : origin[c][k] = i)
        /\ \A k \in 1..Len(records[c]) :
               LET Agrees(rec, ac_power_w, yield_today, status, code, interval_hours) ==
                       /\ ~IsNone(yield_today) => rec["kWh"] = yield_today
                       /\ IsNone(yield_today) => rec["kWh"] = FMax(FMul(Milli(IF IsNone(ac_power_w) THEN FZero ELSE ac_power_w), interval_hours), FZero)
                       /\ ~IsNone(status) => rec["error_type"] = PyStr(Lookup(SolaxSTATUS_MAPPING, PyStrOf(status), unknown))
                       /\ IsNone(status) => rec["error_type"] = PyStr(unknown)
                       /\ ~IsNone(status) => rec["error_code"] = PyStr(PyStrOf(status))
                       /\ "oem_error_code" \in DOMAIN rec <=> ~IsNone(code)
                       /\ ~IsNone(code) => rec["oem_error_code"] = PyStr(PyStrOf(code))
                   Of(rec, entry) == Agrees(rec, _to_float(Get(entry, "acpower")), _to_float(Get(entry, "yieldtoday")), Get(entry, "inverterStatus"), Get(payload[c], "code"), IntervalHours(opts[c], 5))
               IN  Of(records[c][k], items[c][origin[c][k]])

\* A call has returned the record of acpower 4200, yieldtoday 18.4,
\* inverterStatus "102" under a wrapper with code 0: kWh 18.4, normal,
\* error_code "102", oem_error_code "0".
SolaxRecordFieldsWitness ==
    \E c \in Calls :
        /\ Returned(c)
        /\ items[c] = <<SolaxEntry(GoodTime, PyInt(4200), PyFloat(92, 5), PyStr(<<"1", "0", "2">>))>>
        /\ Len(records[c]) = 1
        /\ records[c][1]["kWh"] = PyFloat(92, 5)
        /\ records[c][1]["error_type"] = PyStr(normal)
        /\ records[c][1]["error_code"] = PyStr(<<"1", "0", "2">>)
        /\ "oem_error_code" \in DOMAIN records[c][1]
        /\ records[c][1]["oem_error_code"] = PyStr(<<"0">>)

---------------------------------------------------------------------------
(* SMA event severity, status and event code (specification SpecSMA)       *)

\* event_severity: none, null, in the table in lower, mixed and upper case,
\* not in the table.
SMASeverities == {Absent, PyNone, PyStr(<<"w", "a", "r", "n", "i", "n", "g">>), PyStr(<<"M", "a", "j", "o", "r">>), PyStr(<<"I", "N", "F", "O">>), PyStr(<<"w", "e", "i", "r", "d">>)}

SMAStatuses == {PyNone, PyStr(<<"O", "N", "L", "I", "N", "E">>), PyStr(<<"o", "f", "f", "l", "i", "n", "e">>), PyStr(<<"w", "e", "i", "r", "d">>)}

\* event_code: none, null, text, numbers.
SMAEventCodes == {Absent, PyNone, PyStr(<<"E", "1", "0", "1">>), PyInt(0), PyInt(7)}

\* transform(data, "sma") is called on one normalized record with any
\* event_severity, status_code and event_code.
transformSMA(c) ==
    \E sev \in SMASeverities, status \in SMAStatuses, event_code \in SMAEventCodes :
        Begin(c, <<"s", "m", "a">>,
              JsonText(PyDict([records |-> PyList(<<PyDict([normalized |->
                  NormalizedEntry(IsoTime, PyInt(3000), PyInt(2500), PyNone, status,
                                  WithKey("event_severity", sev, WithKey("event_code", event_code, <<>>)))])>>)])),
              NoOptions)

NextSMA ==
    \/ transformSMA(1)
    \/ _get_transformer(1)
    \/ _parse_json(1)
    \/ SMATransform(1)
    \/ Return(1)

SpecSMA == Init /\ [][NextSMA]_vars

\* The upper-cased text of a severity or status, empty when there is none.
UpperText(v) == IF IsStr(v) THEN Upper(v[2]) ELSE <<>>

\* C25: an SMA record's error_type is decided by event_severity whenever its
\* upper-cased value is in the severity table, overriding any status_code;
\* otherwise the upper-cased status_code is looked up in the fallback
\* table, and unknown results when that misses too; error_code is
\* event_code when present, else status_code (as text).
SeverityOverridesStatus ==
    \A c \in Calls : transformer[c] = "SMATransformer" =>
        \A k \in 1..Len(records[c]) :
            LET Agrees(rec, sev, status, event_code, status_code) ==
                    /\ HasKey(SMASEVERITY_MAPPING, sev) => rec["error_type"] = PyStr(Lookup(SMASEVERITY_MAPPING, sev, unknown))
                    /\ ~HasKey(SMASEVERITY_MAPPING, sev) => rec["error_type"] = PyStr(Lookup(SMASTATUS_FALLBACK, status, unknown))
                    /\ ~IsNone(event_code) => ("error_code" \in DOMAIN rec /\ rec["error_code"] = PyStr(PyStrOf(event_code)))
                    /\ (IsNone(event_code) /\ ~IsNone(status_code)) => ("error_code" \in DOMAIN rec /\ rec["error_code"] = PyStr(PyStrOf(status_code)))
                Of(rec, normalized) ==
                    Agrees(rec, UpperText(Get(normalized, "event_severity")), UpperText(Get(normalized, "status_code")),
                           Get(normalized, "event_code"), Get(normalized, "status_code"))
            IN  Of(records[c][k], Get(items[c][origin[c][k]], "normalized"))

---------------------------------------------------------------------------
(* Fronius status codes and accumulated energy (specification SpecFronius) *)

\* DeviceStatus.StatusCode: null, every key of the table, codes outside it.
FroniusCodes == {PyNone} \cup {PyInt(n) : n \in 0..13} \cup {PyInt(-1), PyInt(99)}

\* An accumulated-energy field: null, exactly 0, a positive reading.
FroniusEnergies == {PyNone, PyInt(0), PyInt(500)}

FroniusPowers == {PyNone, PyInt(1200)}

\* transform(data, "fronius") is called on an inverter, a site or a meter
\* payload with any status code, energy and power.
transformFronius(c) ==
    \/ \E code \in FroniusCodes, day_energy \in FroniusEnergies, pac \in FroniusPowers :
           Begin(c, <<"f", "r", "o", "n", "i", "u", "s">>, JsonText(FroniusPayload(IsoTime, PyNone, FroniusInverter(pac, PyNone, day_energy, PyDict([StatusCode |-> code])))), NoOptions)
    \/ \E e_day \in FroniusEnergies, p_pv \in FroniusPowers :
           Begin(c, <<"f", "r", "o", "n", "i", "u", "s">>, JsonText(FroniusPayload(IsoTime, PyNone, FroniusSite(p_pv, e_day))), NoOptions)
    \/ \E e \in FroniusEnergies :
           Begin(c, <<"f", "r", "o", "n", "i", "u", "s">>, JsonText(FroniusPayload(IsoTime, PyNone, FroniusMeter(PyInt(1200), PyNone, PyNone, e, PyNone))), NoOptions)

NextFronius ==
    \/ transformFronius(1)
    \/ _get_transformer(1)
    \/ _parse_json(1)
    \/ FroniusTransform(1)
    \/ Return(1)

SpecFronius == Init /\ [][NextFronius]_vars

\* Body.Data of a Fronius payload.
FroniusData(p) == DictAt(DictAt(p, "Body"), "Data")

\* C26: for a Fronius inverter payload (Data contains PAC) whose
\* DeviceStatus.StatusCode is a key of STATUS_CODE_MAPPING (0 through 12,
\* 0 included) the error_type is the table value of the code; it is unknown
\* only when the code is absent or not a key.
FroniusStatusTotal ==
    \A c \in Calls : transformer[c] = "FroniusTransformer" =>
        \A k \in 1..Len(records[c]) :
            LET Agrees(rec, status_code) ==
                    /\ HasKey(FroniusSTATUS_CODE_MAPPING, status_code) => rec["error_type"] = PyStr(Lookup(FroniusSTATUS_CODE_MAPPING, status_code, unknown))
                    /\ ~HasKey(FroniusSTATUS_CODE_MAPPING, status_code) => rec["error_type"] = PyStr(unknown)
                Of(rec, data_block) ==
                    FroniusShape(data_block) = "inverter" => Agrees(rec, _to_int(_deep_get(data_block, <<"DeviceStatus", "StatusCode">>)))
            IN  Of(records[c][k], FroniusData(items[c][origin[c][k]]))

\* C27: in each of the three Fronius payload shapes the estimate
\* power * interval_hours is used only when the accumulated-energy field
\* (E_Day, DAY_ENERGY, EnergyReal_WAC_Sum_Produced) is absent; when it is
\* present, exactly 0 included, kWh is max(energy / 1000, 0).
FroniusEnergyPreferred ==
    \A c \in Calls : transformer[c] = "FroniusTransformer" =>
        \A k \in 1..Len(records[c]) :
            LET Agrees(rec, energy, power, interval_hours) ==
                    /\ ~IsNone(energy) => rec["kWh"] = FMax(Milli(energy), FZero)
                    /\ IsNone(energy) => rec["kWh"] = FMax(Milli(FMul(IF IsNone(power) THEN FZero ELSE power, interval_hours)), FZero)
                Of(rec, data_block, block_shape) ==
                    CASE block_shape = "site" -> Agrees(rec, _to_float(Get(Get(data_block, "Site"), "E_Day")), _to_float(Get(Get(data_block, "Site"), "P_PV")), IntervalHours(opts[c], 5))
                      [] block_shape = "inverter" -> Agrees(rec, _to_float(_deep_get(data_block, <<"DAY_ENERGY", "Value">>)), _to_float(_deep_get(data_block, <<"PAC", "Value">>)), IntervalHours(opts[c], 5))
                      [] block_shape = "meter" -> Agrees(rec, _to_float(Get(data_block, "EnergyReal_WAC_Sum_Produced")), _to_float(Get(data_block, "PowerReal_P_Sum")), IntervalHours(opts[c], 5))
                      [] OTHER -> FALSE
            IN  Of(records[c][k], FroniusData(items[c][origin[c][k]]), FroniusShape(FroniusData(items[c][origin[c][k]])))

---------------------------------------------------------------------------
(* SolaxCloud top-level array payloads (specification SpecSolaxList)       *)

\* The most elements of an array payload.
MaxSolaxRows == 2

\* Elements of an array payload: entries with a parsable timestamp, an entry
\* without one, an entry with no timestamp, an element that is no object.
SolaxElements == {
    SolaxEntry(GoodTime, PyInt(4200), PyFloat(92, 5), PyStr(<<"1", "0", "2">>)),
    SolaxEntry(IsoTime, PyInt(1200), PyNone, PyStr(<<"1", "0", "4">>)),
    SolaxEntry(BadTime, PyInt(4200), PyInt(18), PyStr(<<"1", "0", "2">>)),
    SolaxEntry(PyNone, PyInt(4200), PyInt(18), PyStr(<<"1", "0", "2">>)),
    PyInt(1) }

\* transform(data, "solaxcloud") is called on an array of elements.
transformSolaxList(c) ==
    \E elements \in SeqsUpTo(SolaxElements, MaxSolaxRows), o \in {NoOptions, FullOptions} :
        Begin(c, <<"s", "o", "l", "a", "x", "c", "l", "o", "u", "d">>, JsonText(PyList(elements)), o)

NextSolaxList ==
    \/ transformSolaxList(1)
    \/ _get_transformer(1)
    \/ _parse_json(1)
    \/ SolaxCloudTransform(1)
    \/ Return(1)

SpecSolaxList == Init /\ [][NextSolaxList]_vars

\* The element is an object whose timestamp is parsable.
SolaxParsable(element) == IsDict(element) /\ Get(element, "uploadTime") \in {GoodTime, IsoTime}

\* C28: SolaxCloud accepts a top-level array payload: transform returns
\* without error one record for each element that is an object with a
\* parsable timestamp, in array order, with no oem_error_code.
SolaxArrayAccepted ==
    \A c \in Calls : (transformer[c] = "SolaxCloudTransformer" /\ parsed[c] /\ IsList(data[c][2])) =>
        /\ pc[c] # "error"
        /\ \A k \in 1..Len(records[c]) : "oem_error_code" \notin DOMAIN records[c][k]
        /\ Returned(c) => Len(records[c]) = Cardinality({i \in 1..Len(data[c][2][2]) : SolaxParsable(data[c][2][2][i])})

---------------------------------------------------------------------------
(* Field names of the emitted records (specification Spec)                 *)

\* The fields of the canonical record.
CanonicalFields == {
    "timestamp", "kWh", "error_type", "error_code", "kW", "kVA", "kVAr", "PF",
    "voltage_ac", "current_ac", "frequency", "temperature", "asset_id", "oem_error_code" }

\* C29: for every vendor and input, the field names of each emitted record
\* are canonical record fields and include timestamp, kWh and error_type.
FieldsCanonical ==
    \A c \in Calls : \A k \in 1..Len(records[c]) :
        /\ DOMAIN records[c][k] \subseteq CanonicalFields
        /\ {"timestamp", "kWh", "error_type"} \subseteq DOMAIN records[c][k]

---------------------------------------------------------------------------
(* Energy conservation of the Solarman counter (specification SpecCounter) *)

\* The sum of kWh over the first k records.
RECURSIVE SumKwh(_, _)
SumKwh(recs, k) == IF k = 0 THEN FZero ELSE FAdd(SumKwh(recs, k - 1), recs[k]["kWh"])

====
